---- MODULE Spec2Model ----
(***************************************************************************)
(* Tile-grid rendering engine (MatrixDisplay): the cell/tile store, the    *)
(* dirty set, the render-call metric and the auto-render policy.           *)
(*                                                                         *)
(* JavaScript objects are modelled by a heap: a Tile object is identified  *)
(* by the id generateTileId gave it, heap[id] holds its fields, tileMap is *)
(* the key set of the Map<TileId,Tile> and a cell's tile array is a        *)
(* sequence of references (ids) into the heap.  An uncaught TypeError is   *)
(* the flag threw: the call stops where the exception is raised and keeps  *)
(* every assignment made before it.                                        *)
(*                                                                         *)
(* Every public method is one action: the whole call, nested calls and the *)
(* trailing renderIfAuto included.  op records the last public call and    *)
(* calls counts the public calls made so far; neither is read by the       *)
(* engine.  What a call draws is an output of the call: painted is the bag *)
(* of coordinates renderCell was called with and blits the number of       *)
(* copies of the viewport window to the display canvas.                    *)
(*                                                                         *)
(* Spec holds every operation on a small world with a smaller viewport.    *)
(* ViewSpec keeps the operations that feed the dirty set and renders them, *)
(* on a wider world, for a viewport smaller than, equal to and larger than *)
(* the world.  ScenarioSpec is the 10x10 world with the 5x5 viewport.      *)
(* TextSpec lays out strings (createString, createWrappedString) on a 3x3  *)
(* world and moves pairs of tiles.  LegacySpec is the first MatrixDisplay  *)
(* (src/src/matrix-display.ts) with its tile groups.  PaintSpec observes   *)
(* the world canvas: the layers each paint of a cell draws.  IdSpec holds  *)
(* the calls that hand out tile ids.  EntitySpec is one Entity             *)
(* (src/src/entity/entity.ts) over a component store that keeps one        *)
(* component per type.                                                     *)
(***************************************************************************)
EXTENDS Integers, Sequences, FiniteSets, Bags, TLC

\* ------------------------------------------------------------------ bounds
WorldWidth == 2
WorldHeight == 1
ViewportWidth == 1
ViewportHeight == 1
\* tile ids available beyond one full setBackground pass
ExtraIds == 2
MaxIds == WorldWidth * WorldHeight + ExtraIds
\* cap on metrics.totalRenderCalls
MaxRenders == 2
\* number of public calls in one behaviour
MaxCalls == 4
\* longest tile-id list handed to moveTiles / longest array handed to setTiles
MaxList == 1
\* number of public calls in one behaviour that observes the canvas
MaxPaintCalls == 4
\* number of calls on the entity in one behaviour
MaxEntityCalls == 4

\* ------------------------------------------------------------ input values
Transparent == "#00000000"
XS == 0..WorldWidth
YS == 0..WorldHeight
\* every cell of the world, one coordinate past the right edge and one past
\* the bottom edge
Positions ==
    { <<x, y>> : x \in 0..(WorldWidth - 1), y \in 0..(WorldHeight - 1) }
      \cup {<<WorldWidth, 0>>, <<0, WorldHeight>>}
ZS == {-1, 1}
Chars == {"@", "."}
Colors == {"#FFFFFFFF"}
BgColors == {"#000000FF"}
Percents == {1}
FillDirection == {"TOP", "RIGHT", "BOTTOM", "LEFT"}
Dirs == {"BOTTOM"}
OverlayColors == {Transparent, "#FF000080"}
Deltas == {<<1, 0>>, <<-1, 0>>, <<0, 1>>}
\* pan requests: left of / above the world, the origin, one step right, and
\* beyond the far corner
PanRequests ==
    {<<-1, -1>>, <<0, 0>>, <<1, 0>>, <<WorldWidth + 1, WorldHeight + 1>>}

\* a Partial<Omit<Tile,'id'>> over the keys x, y, zIndex and char: a field is {} when the key is absent and {v}
\* when the key is present with value v
NoUpdates == [x |-> {}, y |-> {}, zIndex |-> {}, char |-> {}]
\* no key, one key, or both position keys
Updates ==
    {NoUpdates}
      \cup { [NoUpdates EXCEPT !.x = {v}] : v \in XS }
      \cup { [NoUpdates EXCEPT !.y = {v}] : v \in YS }
      \cup { [NoUpdates EXCEPT !.zIndex = {v}] : v \in ZS }
      \cup { [NoUpdates EXCEPT !.char = {v}] : v \in Chars }
      \cup { [NoUpdates EXCEPT !.x = {p[1]}, !.y = {p[2]}] : p \in Positions }

\* legacy holds the fields of an instance of the first MatrixDisplay
\* (src/src/matrix-display.ts), the one with tile groups.  canvas is the
\* world canvas: for each cell whose pixels a specification observes, the
\* layers last drawn on the cell's rectangle.  issued lists the ids
\* generateTileId has returned, in order; the engine does not read it.
\* entity holds the fields of one Entity (src/src/entity/entity.ts); the
\* behaviours of the displays leave it with the empty id and no component.
VARIABLES worldWidth, worldHeight, cells, heap, tileMap, tileIdCounter,
          dirtyRects, viewport, metrics, autoRender, op, calls, legacy,
          canvas, issued, entity

vars == <<worldWidth, worldHeight, cells, heap, tileMap, tileIdCounter,
          dirtyRects, viewport, metrics, autoRender, op, calls, legacy,
          canvas, issued, entity>>

\* -------------------------------------------------------------- sequences
RECURSIVE SeqFilter(_, _)
SeqFilter(s, keep) ==
    IF s = <<>> THEN <<>>
    ELSE IF Head(s) \in keep THEN <<Head(s)>> \o SeqFilter(Tail(s), keep)
         ELSE SeqFilter(Tail(s), keep)

Range(s) == { s[i] : i \in 1..Len(s) }

SeqsUpTo(S, n) == UNION { [1..k -> S] : k \in 0..n }

\* ------------------------------------------------------------ engine state
\* the fields of one MatrixDisplay instance, threaded through the calls
Cur ==
    [ worldWidth |-> worldWidth, worldHeight |-> worldHeight,
      cells |-> cells, heap |-> heap, tileMap |-> tileMap,
      tileIdCounter |-> tileIdCounter, dirtyRects |-> dirtyRects,
      viewport |-> viewport, metrics |-> metrics,
      autoRender |-> autoRender, warned |-> FALSE, threw |-> FALSE,
      painted |-> EmptyBag, blits |-> 0, ret |-> <<>>,
      canvas |-> canvas, issued |-> issued ]

EmptyCellRec == [overlay |-> Transparent, tiles |-> <<>>, isDirty |-> TRUE]

initializeCells(width, height) ==
    [y \in 0..(height - 1) |-> [x \in 0..(width - 1) |-> EmptyCellRec]]

\* cells[y][x] is an object (not undefined)
CellDefined(st, x, y) ==
    /\ y \in DOMAIN st.cells
    /\ x \in DOMAIN st.cells[y]

Throw(st) == [st EXCEPT !.threw = TRUE]

\* this.log.warn(...): a diagnostic is emitted
Warn(st) == [st EXCEPT !.warned = TRUE]

updateMetrics(st) ==
    [st EXCEPT !.metrics.totalRenderCalls = @ + 1]

\* the paint loop running over every cell of the dirty bounding box
renderDirtyBounds(st) ==
    LET xs == { k[1] : k \in st.dirtyRects }
        ys == { k[2] : k \in st.dirtyRects }
        box == { k \in (0..(st.worldWidth - 1)) \X
                         (0..(st.worldHeight - 1)) :
                   /\ \E a, b \in xs : a <= k[1] /\ k[1] <= b
                   /\ \E a, b \in ys : a <= k[2] /\ k[2] <= b }
    IN  [st EXCEPT !.painted = @ (+) SetToBag(box)]

\* what clearRect leaves on a cell's rectangle; slot is the index in
\* cell.tiles of the tile a layer was drawn for (0: none)
ClearLayer ==
    [layer |-> "clear", slot |-> 0, zIndex |-> 0, style |-> Transparent,
     char |-> "", bgPercent |-> 0, fillDirection |-> ""]

\* Array.from(cell.tiles.values()).sort((a, b) => a.zIndex - b.zIndex), the
\* sort being stable: the tiles from slot i on are inserted, one by one,
\* after the last tile of acc whose z-index is not greater
RECURSIVE sortedTiles(_, _, _, _)
sortedTiles(st, tiles, i, acc) ==
    IF i > Len(tiles) THEN acc
    ELSE LET z == st.heap[tiles[i]].zIndex
             k == Cardinality({ j \in 1..Len(acc) :
                                  st.heap[acc[j].tile].zIndex <= z })
         IN  sortedTiles(st, tiles, i + 1,
                         SubSeq(acc, 1, k) \o <<[slot |-> i, tile |-> tiles[i]]>>
                           \o SubSeq(acc, k + 1, Len(acc)))

\* the body of sortedTiles.forEach for one tile: the background fill, then
\* the glyph
tileLayers(st, entry) ==
    LET tile == st.heap[entry.tile]
        background ==
            IF /\ tile.backgroundColor # ""
               /\ tile.backgroundColor # "#00000000"
               /\ tile.bgPercent > 0
            THEN <<[layer |-> "background", slot |-> entry.slot,
                    zIndex |-> tile.zIndex, style |-> tile.backgroundColor,
                    char |-> "", bgPercent |-> tile.bgPercent,
                    fillDirection |-> tile.fillDirection]>>
            ELSE <<>>
        glyph ==
            IF tile.char # "" /\ tile.color # ""
            THEN <<[layer |-> "glyph", slot |-> entry.slot,
                    zIndex |-> tile.zIndex, style |-> tile.color,
                    char |-> tile.char, bgPercent |-> 0,
                    fillDirection |-> ""]>>
            ELSE <<>>
    IN  background \o glyph

RECURSIVE drawTiles(_, _)
drawTiles(st, entries) ==
    IF entries = <<>> THEN <<>>
    ELSE tileLayers(st, Head(entries)) \o drawTiles(st, Tail(entries))

\* the tiles are drawn in stored order, without the sort
renderCellUnsorted(st, x, y) ==
    LET cell == st.cells[y][x]
    IN  <<ClearLayer>>
          \o drawTiles(st, [i \in 1..Len(cell.tiles) |->
                              [slot |-> i, tile |-> cell.tiles[i]]])
          \o (IF cell.overlay # "" /\ cell.overlay # "#00000000"
              THEN <<[ClearLayer EXCEPT !.layer = "overlay",
                                        !.style = cell.overlay]>>
              ELSE <<>>)

\* renderCell(cell, x, y): the layers it draws on the cell's rectangle of
\* the world canvas, in drawing order
renderCell(st, x, y) ==
    LET cell == st.cells[y][x]
    IN  <<ClearLayer>>
          \o drawTiles(st, sortedTiles(st, cell.tiles, 1, <<>>))
          \o (IF cell.overlay # "" /\ cell.overlay # "#00000000"
              THEN <<[ClearLayer EXCEPT !.layer = "overlay",
                                        !.style = cell.overlay]>>
              ELSE <<>>)

\* the loop "for (const key of this.dirtyRects) renderCell(...)": one
\* renderCell call per key of the Set
renderDirtyCells(st) ==
    [st EXCEPT !.painted = @ (+) SetToBag(st.dirtyRects),
               !.canvas = [c \in DOMAIN st.canvas |->
                             IF c \in st.dirtyRects
                             THEN renderCell(st, c[1], c[2])
                             ELSE st.canvas[c]]]

\* the copy of the viewport window of the world canvas to the display canvas
copyToDisplay(st) == [st EXCEPT !.blits = @ + 1]

\* render without its dirtyRects.clear()
renderKeepsDirty(st) ==
    IF st.threw THEN st
    ELSE IF Cardinality(st.dirtyRects) = 0 THEN updateMetrics(st)
    ELSE LET s1 == [st EXCEPT !.metrics.dirtyRectCount =
                                   Cardinality(st.dirtyRects)]
         IN  IF \E k \in s1.dirtyRects : ~CellDefined(s1, k[1], k[2])
             THEN Throw(s1)
             ELSE updateMetrics(copyToDisplay(renderDirtyCells(s1)))

\* render returning early on an empty dirty set without updateMetrics
renderSkipsMetrics(st) ==
    IF st.threw THEN st
    ELSE IF Cardinality(st.dirtyRects) = 0 THEN st
    ELSE LET s1 == [st EXCEPT !.metrics.dirtyRectCount =
                                   Cardinality(st.dirtyRects)]
         IN  IF \E k \in s1.dirtyRects : ~CellDefined(s1, k[1], k[2])
             THEN Throw(s1)
             ELSE updateMetrics(copyToDisplay(
                    [renderDirtyCells(s1) EXCEPT !.dirtyRects = {}]))

\* A dirty key naming no cell makes the paint loop throw a TypeError
\* (cells[y] or the cell itself is undefined); the keys painted before it
\* depend on the Set's insertion order, which the model does not keep, so
\* painted is left as it was on that path.
render(st) ==
    IF st.threw THEN st
    ELSE IF Cardinality(st.dirtyRects) = 0 THEN updateMetrics(st)
    ELSE LET s1 == [st EXCEPT !.metrics.dirtyRectCount =
                                   Cardinality(st.dirtyRects)]
         IN  IF \E k \in s1.dirtyRects : ~CellDefined(s1, k[1], k[2])
             THEN Throw(s1)
             ELSE updateMetrics(copyToDisplay(
                    [renderDirtyCells(s1) EXCEPT !.dirtyRects = {}]))

\* renderIfAuto rendering whatever the autoRender flag says
renderAlways(st) ==
    IF st.threw THEN st ELSE render(st)

renderIfAuto(st) ==
    IF st.threw THEN st
    ELSE IF st.autoRender THEN render(st) ELSE st

\* Array.prototype.findIndex(t => t.zIndex > z): 0-based index or -1
FindIndexGreater(st, tiles, z) ==
    LET hits == { i \in 1..Len(tiles) : st.heap[tiles[i]].zIndex > z }
    IN  IF hits = {} THEN -1
        ELSE (CHOOSE i \in hits : \A j \in hits : i <= j) - 1

setTileInCell(st, id) ==
    LET tile == st.heap[id]
    IN  IF tile.x >= 0 /\ tile.x < st.worldWidth /\
           tile.y >= 0 /\ tile.y < st.worldHeight
        THEN LET old == st.cells[tile.y][tile.x].tiles
                 insertIndex == FindIndexGreater(st, old, tile.zIndex)
                 new == IF insertIndex = -1
                        THEN Append(old, id)
                        ELSE SubSeq(old, 1, insertIndex) \o <<id>> \o
                             SubSeq(old, insertIndex + 1, Len(old))
             IN  [st EXCEPT !.cells[tile.y][tile.x].tiles = new,
                            !.cells[tile.y][tile.x].isDirty = TRUE,
                            !.dirtyRects = @ \cup {<<tile.x, tile.y>>}]
        ELSE st

\* the id is the number of registered tiles, not the counter
generateTileIdByCount(st) == Cardinality(st.tileMap)

generateTileId(st) == st.tileIdCounter

createTile(st, x, y, char, color, backgroundColor, zIndex, bgPercent, fillDirection) ==
    IF st.threw THEN st
    ELSE LET id == generateTileId(st)
             tile == [id |-> id, x |-> x, y |-> y, char |-> char,
                      color |-> color, backgroundColor |-> backgroundColor,
                      zIndex |-> zIndex, bgPercent |-> bgPercent,
                      fillDirection |-> fillDirection]
             s1 == [st EXCEPT !.tileIdCounter = @ + 1,
                              !.issued = Append(@, id),
                              !.heap = [i \in DOMAIN st.heap \cup {id} |->
                                          IF i = id THEN tile
                                          ELSE st.heap[i]],
                              !.tileMap = @ \cup {id}]
         IN  renderIfAuto(setTileInCell(s1, id))

moveTile(st, tileId, newX, newY) ==
    IF st.threw THEN st
    ELSE IF tileId \notin st.tileMap THEN Warn(st)
    ELSE IF newX < 0 \/ newX >= st.worldWidth \/
            newY < 0 \/ newY >= st.worldHeight THEN Warn(st)
    ELSE LET tile == st.heap[tileId]
         IN  IF ~CellDefined(st, tile.x, tile.y) THEN Throw(st)
             ELSE LET s1 ==
                        [st EXCEPT
                           !.cells[tile.y][tile.x].tiles =
                               SeqFilter(@, Range(@) \ {tileId}),
                           !.cells[tile.y][tile.x].isDirty = TRUE,
                           !.dirtyRects = @ \cup {<<tile.x, tile.y>>},
                           !.heap[tileId].x = newX,
                           !.heap[tileId].y = newY]
                  IN  renderIfAuto(setTileInCell(s1, tileId))

RECURSIVE moveTiles(_, _, _, _)
moveTiles(st, tileIds, dx, dy) ==
    IF tileIds = <<>> THEN st
    ELSE LET tileId == Head(tileIds)
             s1 == IF st.threw \/ tileId \notin st.tileMap THEN st
                   ELSE moveTile(st, tileId, st.heap[tileId].x + dx,
                                 st.heap[tileId].y + dy)
         IN  moveTiles(s1, Tail(tileIds), dx, dy)

\* Object.assign(tile, updates)
Assign(tile, updates) ==
    [tile EXCEPT
       !.x = IF updates.x = {} THEN @ ELSE CHOOSE v \in updates.x : TRUE,
       !.y = IF updates.y = {} THEN @ ELSE CHOOSE v \in updates.y : TRUE,
       !.zIndex = IF updates.zIndex = {} THEN @
                  ELSE CHOOSE v \in updates.zIndex : TRUE,
       !.char = IF updates.char = {} THEN @
                ELSE CHOOSE v \in updates.char : TRUE]

updateTile(st, tileId, updates) ==
    IF st.threw THEN st
    ELSE IF tileId \notin st.tileMap THEN Warn(st)
    ELSE LET s1 == [st EXCEPT !.heap[tileId] = Assign(@, updates)]
             tile == s1.heap[tileId]
         IN  IF updates.x # {} \/ updates.y # {}
             THEN moveTile(s1, tileId, tile.x, tile.y)
             ELSE IF ~CellDefined(s1, tile.x, tile.y) THEN Throw(s1)
             ELSE renderIfAuto(
                    [s1 EXCEPT !.cells[tile.y][tile.x].isDirty = TRUE,
                               !.dirtyRects = @ \cup {<<tile.x, tile.y>>}])

RECURSIVE updateTiles(_, _, _)
updateTiles(st, tileIds, updates) ==
    IF tileIds = <<>> THEN st
    ELSE updateTiles(updateTile(st, Head(tileIds), updates), Tail(tileIds),
                     updates)

\* removeTile without its tileMap.delete
removeTileKeepsIndex(st, tileId) ==
    IF st.threw THEN st
    ELSE IF tileId \notin st.tileMap THEN Warn(st)
    ELSE LET tile == st.heap[tileId]
         IN  IF ~CellDefined(st, tile.x, tile.y) THEN Throw(st)
             ELSE renderIfAuto(
                    [st EXCEPT
                       !.cells[tile.y][tile.x].tiles =
                           SeqFilter(@, Range(@) \ {tileId}),
                       !.cells[tile.y][tile.x].isDirty = TRUE,
                       !.dirtyRects = @ \cup {<<tile.x, tile.y>>}])

removeTile(st, tileId) ==
    IF st.threw THEN st
    ELSE IF tileId \notin st.tileMap THEN Warn(st)
    ELSE LET tile == st.heap[tileId]
         IN  IF ~CellDefined(st, tile.x, tile.y) THEN Throw(st)
             ELSE renderIfAuto(
                    [st EXCEPT
                       !.cells[tile.y][tile.x].tiles =
                           SeqFilter(@, Range(@) \ {tileId}),
                       !.cells[tile.y][tile.x].isDirty = TRUE,
                       !.dirtyRects = @ \cup {<<tile.x, tile.y>>},
                       !.tileMap = @ \ {tileId}])

RECURSIVE removeEach(_, _)
removeEach(st, tileIds) ==
    IF tileIds = <<>> THEN st
    ELSE removeEach(removeTile(st, Head(tileIds)), Tail(tileIds))

removeTiles(st, tileIds) == removeEach(st, tileIds)

emptyCell(st, x, y) ==
    IF st.threw THEN st
    ELSE IF x < 0 \/ x >= st.worldWidth \/ y < 0 \/ y >= st.worldHeight
         THEN Warn(st)
    ELSE removeEach(st, st.cells[y][x].tiles)

\* setOverlay marking the coordinate dirty before its bounds check
setOverlayMarksFirst(st, x, y, color) ==
    IF st.threw THEN st
    ELSE IF x < 0 \/ x >= st.worldWidth \/ y < 0 \/ y >= st.worldHeight
         THEN Warn([st EXCEPT !.dirtyRects = @ \cup {<<x, y>>}])
    ELSE renderIfAuto(
           [st EXCEPT !.cells[y][x].overlay = color,
                      !.cells[y][x].isDirty = TRUE,
                      !.dirtyRects = @ \cup {<<x, y>>}])

setOverlay(st, x, y, color) ==
    IF st.threw THEN st
    ELSE IF x < 0 \/ x >= st.worldWidth \/ y < 0 \/ y >= st.worldHeight
         THEN Warn(st)
    ELSE renderIfAuto(
           [st EXCEPT !.cells[y][x].overlay = color,
                      !.cells[y][x].isDirty = TRUE,
                      !.dirtyRects = @ \cup {<<x, y>>}])

Max(a, b) == IF a >= b THEN a ELSE b

Min(a, b) == IF a <= b THEN a ELSE b

\* the cells of the world-coordinate rectangle the viewport vp covers
ViewportRect(vp) ==
    { <<vx + vp.x, vy + vp.y>> : vx \in 0..(vp.width - 1),
                                 vy \in 0..(vp.height - 1) }

\* setViewport marking the rectangle dirty only when the position changed
setViewportIfMoved(st, x, y) ==
    IF st.threw THEN st
    ELSE LET s1 == [st EXCEPT
                      !.viewport.x =
                          Max(0, Min(x, st.worldWidth - st.viewport.width)),
                      !.viewport.y =
                          Max(0, Min(y, st.worldHeight - st.viewport.height))]
         IN  renderIfAuto(
               IF s1.viewport = st.viewport THEN s1
               ELSE [s1 EXCEPT
                       !.dirtyRects = @ \cup ViewportRect(s1.viewport)])

\* the world canvas is worldWidth * cellSize by worldHeight * cellSize pixels,
\* so worldCanvas.width / cellSize is the world width in cells
setViewport(st, x, y) ==
    IF st.threw THEN st
    ELSE LET s1 == [st EXCEPT
                      !.viewport.x =
                          Max(0, Min(x, st.worldWidth - st.viewport.width)),
                      !.viewport.y =
                          Max(0, Min(y, st.worldHeight - st.viewport.height))]
         IN  renderIfAuto(
               [s1 EXCEPT !.dirtyRects = @ \cup ViewportRect(s1.viewport)])

AllCoords(st) ==
    { <<x, y>> : x \in 0..(st.worldWidth - 1), y \in DOMAIN st.cells }

\* clearOverlays without its dirtyRects.add
clearOverlaysKeepsDirty(st) ==
    IF st.threw THEN st
    ELSE renderIfAuto(
           [st EXCEPT
              !.cells = [y \in DOMAIN st.cells |->
                          [x \in DOMAIN st.cells[y] |->
                            [st.cells[y][x] EXCEPT !.overlay = Transparent,
                                                   !.isDirty = TRUE]]]])

clearOverlays(st) ==
    IF st.threw THEN st
    ELSE renderIfAuto(
           [st EXCEPT
              !.cells = [y \in DOMAIN st.cells |->
                          [x \in DOMAIN st.cells[y] |->
                            [st.cells[y][x] EXCEPT !.overlay = Transparent,
                                                   !.isDirty = TRUE]]],
              !.dirtyRects = @ \cup AllCoords(st)])

clear(st) ==
    IF st.threw THEN st
    ELSE renderIfAuto(
           [st EXCEPT
              !.cells = [y \in DOMAIN st.cells |->
                          [x \in DOMAIN st.cells[y] |-> EmptyCellRec]],
              !.dirtyRects = @ \cup AllCoords(st),
              !.canvas = [c \in DOMAIN st.canvas |-> <<ClearLayer>>]])

setTiles(st, x, y, tiles) ==
    IF st.threw THEN st
    ELSE IF ~CellDefined(st, x, y) THEN Throw(st)
    ELSE [st EXCEPT !.cells[y][x].tiles = tiles,
                    !.cells[y][x].isDirty = TRUE,
                    !.dirtyRects = @ \cup {<<x, y>>}]

\* one iteration of the loop body of setBackground, for cell (x,y)
setBackgroundCell(st, x, y, symbol, fgColor, bgColor) ==
    LET id == generateTileId(st)
        backgroundTile ==
            [id |-> id, x |-> x, y |-> y, char |-> symbol,
             color |-> fgColor, backgroundColor |-> bgColor,
             zIndex |-> -1, bgPercent |-> 1, fillDirection |-> "BOTTOM"]
        old == st.cells[y][x].tiles
        kept == SeqFilter(old, { t \in Range(old) :
                                   st.heap[t].zIndex # -1 })
    IN  [st EXCEPT
           !.tileIdCounter = @ + 1,
           !.issued = Append(@, id),
           !.heap = [i \in DOMAIN st.heap \cup {id} |->
                       IF i = id THEN backgroundTile ELSE st.heap[i]],
           !.cells[y][x].tiles = Append(kept, id),
           !.cells[y][x].isDirty = TRUE,
           !.dirtyRects = @ \cup {<<x, y>>}]

\* the nested loops of setBackground from cell number n (row-major) onwards
RECURSIVE setBackgroundFrom(_, _, _, _, _)
setBackgroundFrom(st, n, symbol, fgColor, bgColor) ==
    IF n >= st.worldWidth * st.worldHeight THEN st
    ELSE setBackgroundFrom(
           setBackgroundCell(st, n % st.worldWidth, n \div st.worldWidth,
                             symbol, fgColor, bgColor),
           n + 1, symbol, fgColor, bgColor)

setBackground(st, symbol, fgColor, bgColor) ==
    IF st.threw THEN st
    ELSE renderIfAuto(setBackgroundFrom(st, 0, symbol, fgColor, bgColor))

setAutoRender(st, enabled) == [st EXCEPT !.autoRender = enabled]

\* Map.get: {tile} when the key is present, {} for undefined
getTile(st, tileId) ==
    IF tileId \in st.tileMap THEN {st.heap[tileId]} ELSE {}

\* ------------------------------------------------------------ text layout
\* this.textParser.parse(text) returns a list of segments {text, color}; the
\* layout is modelled from that list on.  A text is a sequence of
\* one-character strings, as Array.from(text) yields them.
IsSpace(c) == c = " "

\* length of the run of characters of one class (whitespace or not) the text
\* starts with
RunLength(text) ==
    CHOOSE k \in 1..Len(text) :
        /\ \A i \in 1..k : IsSpace(text[i]) = IsSpace(text[1])
        /\ k = Len(text) \/ IsSpace(text[k + 1]) # IsSpace(text[1])

\* segment.text.split(/(\s+)/): the words and the whitespace runs between
\* them, in order; the empty strings the split yields at a whitespace border
\* of the text are left out, the loop returns on them ("if (!word.length)")
RECURSIVE SplitWords(_)
SplitWords(text) ==
    IF text = <<>> THEN <<>>
    ELSE <<SubSeq(text, 1, RunLength(text))>>
           \o SplitWords(SubSeq(text, RunLength(text) + 1, Len(text)))

\* Array.from(segment.text).forEach(char => tileIds.push(createTile(
\* currentX++, y, char, segment.color, "#000000FF", zIndex, 1, BOTTOM)))
RECURSIVE createStringChars(_, _, _, _, _, _)
createStringChars(st, currentX, y, text, color, zIndex) ==
    IF text = <<>> THEN st
    ELSE LET tileId == generateTileId(st)
             s1 == createTile(st, currentX, y, Head(text), color,
                              "#000000FF", zIndex, 1, "BOTTOM")
         IN  createStringChars([s1 EXCEPT !.ret = Append(@, tileId)],
                               currentX + 1, y, Tail(text), color, zIndex)

RECURSIVE createStringSegments(_, _, _, _, _)
createStringSegments(st, currentX, y, segments, zIndex) ==
    IF segments = <<>> THEN st
    ELSE createStringSegments(
             createStringChars(st, currentX, y, Head(segments).text,
                               Head(segments).color, zIndex),
             currentX + Len(Head(segments).text), y, Tail(segments), zIndex)

\* the zIndex argument is dropped and every tile gets the default
createStringDefaultZ(st, x, y, segments, zIndex) ==
    createStringSegments(st, x, y, segments, 1)

createString(st, x, y, segments, zIndex) ==
    createStringSegments(st, x, y, segments, zIndex)

\* the fill loops run over the closed ranges of the box
fillBoxClosed(actualX, actualY, actualWidth, actualHeight) ==
    [ k \in 1..((actualWidth + 1) * (actualHeight + 1)) |->
        <<actualX + ((k - 1) % (actualWidth + 1)),
          actualY + ((k - 1) \div (actualWidth + 1))>> ]

\* the coordinates the fillBox loops visit, in the order they visit them:
\* for (py = actualY; py < actualY + actualHeight; py++)
\*   for (px = actualX; px < actualX + actualWidth; px++)
fillBoxCoords(actualX, actualY, actualWidth, actualHeight) ==
    [ k \in 1..(actualWidth * actualHeight) |->
        <<actualX + ((k - 1) % actualWidth),
          actualY + ((k - 1) \div actualWidth)>> ]

\* one background tile per coordinate of the box
RECURSIVE createFillBox(_, _, _, _)
createFillBox(st, coords, backgroundColor, zIndex) ==
    IF coords = <<>> THEN st
    ELSE LET tileId == generateTileId(st)
             s1 == createTile(st, Head(coords)[1], Head(coords)[2], " ",
                              "#00000000", backgroundColor, zIndex - 1, 1,
                              "BOTTOM")
         IN  createFillBox([s1 EXCEPT !.ret = Append(@, tileId)],
                           Tail(coords), backgroundColor, zIndex)

\* the tiles of one word, created at (currentX + wordTileIds.length,
\* currentY); w holds the engine (st) and wordTileIds
RECURSIVE createWordTiles(_, _, _, _, _, _, _)
createWordTiles(w, word, currentX, currentY, color, textBackgroundColor, zIndex) ==
    IF word = <<>> THEN w
    ELSE LET tileId == generateTileId(w.st)
             s1 == createTile(w.st, currentX + Len(w.wordTileIds), currentY,
                              Head(word), color, textBackgroundColor, zIndex,
                              1, "BOTTOM")
         IN  createWordTiles(
                 [st |-> s1, wordTileIds |-> Append(w.wordTileIds, tileId)],
                 Tail(word), currentX, currentY, color, textBackgroundColor,
                 zIndex)

\* wordTileIds.forEach((tileId, i) => moveTile(tileId, currentX + i,
\* currentY)), from index i on
RECURSIVE moveWordTiles(_, _, _, _, _)
moveWordTiles(st, wordTileIds, i, currentX, currentY) ==
    IF i >= Len(wordTileIds) THEN st
    ELSE moveWordTiles(moveTile(st, wordTileIds[i + 1], currentX + i,
                                currentY),
                       wordTileIds, i + 1, currentX, currentY)

\* the layout without the overflow test: every word stays on the first row
layoutWordNeverWraps(lay, word, color, x, width, options) ==
    LET w == createWordTiles([st |-> lay.st, wordTileIds |-> <<>>], word,
                             lay.currentX, lay.currentY, color,
                             options.textBackgroundColor, options.zIndex)
        l1 == lay
        s1 == moveWordTiles(w.st, w.wordTileIds, 0, l1.currentX,
                            l1.currentY)
    IN  [l1 EXCEPT !.st = [s1 EXCEPT !.ret = @ \o w.wordTileIds],
                   !.currentLineWords = @ + 1,
                   !.currentX = @ + Len(word)]

\* the body of words.forEach for one non-empty word; lay holds the engine
\* (st), currentX, currentY, lineStart and currentLineWords.length
layoutWord(lay, word, color, x, width, options) ==
    LET w == createWordTiles([st |-> lay.st, wordTileIds |-> <<>>], word,
                             lay.currentX, lay.currentY, color,
                             options.textBackgroundColor, options.zIndex)
        l1 == IF /\ lay.currentX - lay.lineStart + Len(word) > width
                 /\ lay.currentLineWords > 0
              THEN [lay EXCEPT !.currentY = @ + 1, !.currentX = x,
                               !.lineStart = x, !.currentLineWords = 0]
              ELSE lay
        s1 == moveWordTiles(w.st, w.wordTileIds, 0, l1.currentX,
                            l1.currentY)
    IN  [l1 EXCEPT !.st = [s1 EXCEPT !.ret = @ \o w.wordTileIds],
                   !.currentLineWords = @ + 1,
                   !.currentX = @ + Len(word)]

RECURSIVE layoutWords(_, _, _, _, _, _)
layoutWords(lay, words, color, x, width, options) ==
    IF words = <<>> THEN lay
    ELSE layoutWords(layoutWord(lay, Head(words), color, x, width, options),
                     Tail(words), color, x, width, options)

RECURSIVE layoutSegments(_, _, _, _, _)
layoutSegments(lay, segments, x, width, options) ==
    IF segments = <<>> THEN lay
    ELSE layoutSegments(
             layoutWords(lay, SplitWords(Head(segments).text),
                         Head(segments).color, x, width, options),
             Tail(segments), x, width, options)

\* the defaults of the options object
DefaultOptions ==
    [zIndex |-> 1, backgroundColor |-> "#00000000",
     textBackgroundColor |-> "#00000000", fillBox |-> FALSE, padding |-> 0]

createWrappedString(st, x, y, width, height, segments, options) ==
    LET actualX == x - options.padding
        actualY == y - options.padding
        actualWidth == width + (options.padding * 2)
        actualHeight == height + (options.padding * 2) + 1
        s1 == IF options.fillBox
              THEN createFillBox(st, fillBoxCoords(actualX, actualY,
                                                   actualWidth, actualHeight),
                                 options.backgroundColor, options.zIndex)
              ELSE st
        lay == [st |-> s1, currentX |-> x, currentY |-> y, lineStart |-> x,
                currentLineWords |-> 0]
    IN  layoutSegments(lay, segments, x, width, options).st

\* ---------------------------------------------------------------- actions
\* objects no cell and no map entry refers to are garbage
Live(st) ==
    st.tileMap \cup
    UNION { Range(st.cells[y][x].tiles) :
              x \in 0..(st.worldWidth - 1), y \in 0..(st.worldHeight - 1) }

\* ------------------------------------------------------------- the entity
\* A component is an object with a type, its data (here the x and y of a
\* position component) and the optional flag modified: {} when the key is
\* absent, {v} when it is present with value v.  An optional result is {}
\* for undefined and {v} for the value v.
NoComponent == [type |-> "", x |-> 0, y |-> 0, modified |-> {}]

\* ComponentStore keeps at most one component per type, in the order the
\* types were first set: store.set(component)
ComponentStoreSet(store, component) ==
    IF \E i \in 1..Len(store) : store[i].type = component.type
    THEN [i \in 1..Len(store) |->
            IF store[i].type = component.type THEN component ELSE store[i]]
    ELSE Append(store, component)

\* store.get(type)
ComponentStoreGet(store, type) ==
    { store[i] : i \in { j \in 1..Len(store) : store[j].type = type } }

\* store.has(type)
ComponentStoreHas(store, type) ==
    \E i \in 1..Len(store) : store[i].type = type

\* store.remove(type): the store without the component, and whether there
\* was one
ComponentStoreRemove(store, type) ==
    [store |-> SelectSeq(store, LAMBDA c : c.type # type),
     ret |-> ComponentStoreHas(store, type)]

\* store.values()
ComponentStoreValues(store) == store

\* new Entity(id)
NewEntity(id) == [id |-> id, store |-> <<>>, changedComponents |-> <<>>]

getId(en) == en.id

getComponent(en, type) == ComponentStoreGet(en.store, type)

\* changedComponents.add(type) on the Set, which keeps insertion order
setComponent(en, component) ==
    [en EXCEPT
       !.store = ComponentStoreSet(@, [component EXCEPT !.modified = {TRUE}]),
       !.changedComponents =
           IF component.type \in Range(@) THEN @ ELSE Append(@, component.type)]

hasComponent(en, type) == ComponentStoreHas(en.store, type)

\* the component stays in the store
removeComponentKeeps(en, type) ==
    [en |-> en, ret |-> ComponentStoreRemove(en.store, type).ret]

\* the entity after the call, and the value returned
removeComponent(en, type) ==
    [en |-> [en EXCEPT !.store = ComponentStoreRemove(@, type).store],
     ret |-> ComponentStoreRemove(en.store, type).ret]

getComponents(en) == ComponentStoreValues(en.store)

hasComponentChanged(en, type) == type \in Range(en.changedComponents)

getChangedComponents(en) == en.changedComponents

hasChanges(en) == Len(en.changedComponents) > 0

\* the components values() returns are the stored objects
clearChanges(en) ==
    [en EXCEPT
       !.store = [i \in 1..Len(getComponents(en)) |->
                    [getComponents(en)[i] EXCEPT !.modified = {FALSE}]],
       !.changedComponents = <<>>]

\* ------------------------------------------------------------- the calls
\* the arguments of a text-layout, moveTiles, tile-group or entity call
NoArgs ==
    [x |-> 0, y |-> 0, width |-> 0, height |-> 0, segments |-> <<>>,
     zIndex |-> 0, fillBox |-> FALSE, padding |-> 0, tileIds |-> <<>>,
     dx |-> 0, dy |-> 0, text |-> <<>>, component |-> NoComponent]

\* the last public call: its name, the tile id it was given (createTile: the
\* id it returned), whether it emitted a WARN diagnostic, whether it threw,
\* the renderCell calls it made, the number of its copies to the display,
\* the TileId[] it returned and (text layout, moveTiles) its arguments
NoCall ==
    [name |-> "new", id |-> -1, warned |-> FALSE, threw |-> FALSE,
     painted |-> EmptyBag, blits |-> 0, ret |-> <<>>, args |-> NoArgs]

Call(name, id) == [NoCall EXCEPT !.name = name, !.id = id]

\* the engine's fields after a call that left it in state st
Store(st, call) ==
    /\ calls' = calls + 1
    /\ worldWidth' = st.worldWidth
    /\ worldHeight' = st.worldHeight
    /\ cells' = st.cells
    /\ heap' = [i \in Live(st) |-> st.heap[i]]
    /\ tileMap' = st.tileMap
    /\ tileIdCounter' = st.tileIdCounter
    /\ dirtyRects' = st.dirtyRects
    /\ viewport' = st.viewport
    /\ metrics' = st.metrics
    /\ autoRender' = st.autoRender
    /\ op' = [call EXCEPT !.warned = st.warned, !.threw = st.threw,
                          !.painted = st.painted, !.blits = st.blits,
                          !.ret = IF st.threw THEN <<>> ELSE st.ret]
    /\ legacy' = legacy
    /\ canvas' = st.canvas
    /\ issued' = st.issued
    /\ entity' = entity

\* a call of a behaviour bounded in calls, tile ids and render passes
Commit(st, call) ==
    /\ calls < MaxCalls
    /\ st.tileIdCounter <= MaxIds
    /\ st.metrics.totalRenderCalls <= MaxRenders
    /\ Store(st, call)

\* the pixels of the world canvas are not observed
NoCanvas == [c \in {} |-> <<>>]

\* no instance of the first MatrixDisplay was constructed
NoLegacy ==
    [worldWidth |-> 0, worldHeight |-> 0, cells |-> <<>>,
     tileGroups |-> <<>>, dirtyRects |-> {},
     metrics |-> [totalRenderCalls |-> 0, dirtyRectCount |-> 0],
     warned |-> FALSE, threw |-> FALSE]

\* the engine as the constructor leaves it
New(options) ==
    /\ worldWidth = options.worldWidth
    /\ worldHeight = options.worldHeight
    /\ cells = initializeCells(options.worldWidth, options.worldHeight)
    /\ heap = [i \in {} |-> 0]
    /\ tileMap = {}
    /\ tileIdCounter = 0
    /\ dirtyRects = {}
    /\ viewport = [x |-> 0, y |-> 0, width |-> options.viewportWidth,
                   height |-> options.viewportHeight]
    /\ metrics = [totalRenderCalls |-> 0, dirtyRectCount |-> 0]
    /\ autoRender = TRUE
    /\ op = NoCall
    /\ calls = 0
    /\ issued = <<>>

Init ==
    /\ New([worldWidth |-> WorldWidth, worldHeight |-> WorldHeight,
            viewportWidth |-> ViewportWidth,
            viewportHeight |-> ViewportHeight])
    /\ legacy = NoLegacy
    /\ canvas = NoCanvas
    /\ entity = NewEntity("")

\* the ids handed to a call: the id of every tile object in use and one id
\* that names no tile (every unknown id takes the same path)
Ids == tileMap \cup DOMAIN heap \cup {tileIdCounter}

CreateTile ==
    \E p \in Positions, char \in Chars, color \in Colors,
       bg \in BgColors, z \in ZS, pct \in Percents, dir \in Dirs :
        Commit(createTile(Cur, p[1], p[2], char, color, bg, z, pct, dir),
               Call("createTile", tileIdCounter))

MoveTile ==
    \E id \in Ids, p \in Positions :
        Commit(moveTile(Cur, id, p[1], p[2]), Call("moveTile", id))

MoveTiles ==
    \E ids \in SeqsUpTo(Ids, MaxList), d \in Deltas :
        Commit(moveTiles(Cur, ids, d[1], d[2]), Call("moveTiles", -1))

UpdateTile ==
    \E id \in Ids, u \in Updates :
        Commit(updateTile(Cur, id, u), Call("updateTile", id))

RemoveTile ==
    \E id \in Ids :
        Commit(removeTile(Cur, id), Call("removeTile", id))

EmptyCell ==
    \E p \in Positions :
        Commit(emptyCell(Cur, p[1], p[2]), Call("emptyCell", -1))

SetOverlay ==
    \E p \in Positions, c \in OverlayColors :
        Commit(setOverlay(Cur, p[1], p[2], c), Call("setOverlay", -1))

ClearOverlays ==
    Commit(clearOverlays(Cur), Call("clearOverlays", -1))

Clear ==
    Commit(clear(Cur), Call("clear", -1))

SetTiles ==
    \E p \in Positions, ts \in SeqsUpTo(DOMAIN heap, MaxList) :
        Commit(setTiles(Cur, p[1], p[2], ts), Call("setTiles", -1))

SetBackground ==
    \E symbol \in Chars, fg \in Colors, bg \in BgColors :
        Commit(setBackground(Cur, symbol, fg, bg), Call("setBackground", -1))

SetViewport ==
    \E p \in PanRequests :
        Commit(setViewport(Cur, p[1], p[2]), Call("setViewport", -1))

UpdateTiles ==
    \E ids \in SeqsUpTo(Ids, MaxList), u \in Updates :
        Commit(updateTiles(Cur, ids, u), Call("updateTiles", -1))

RemoveTiles ==
    \E ids \in SeqsUpTo(Ids, MaxList) :
        Commit(removeTiles(Cur, ids), Call("removeTiles", -1))

SetAutoRender ==
    \E enabled \in BOOLEAN :
        Commit(setAutoRender(Cur, enabled), Call("setAutoRender", -1))

Render ==
    Commit(render(Cur), Call("render", -1))

Next ==
    \/ CreateTile
    \/ MoveTile
    \/ MoveTiles
    \/ UpdateTile
    \/ RemoveTile
    \/ EmptyCell
    \/ SetOverlay
    \/ ClearOverlays
    \/ Clear
    \/ SetTiles
    \/ SetBackground
    \/ SetViewport
    \/ UpdateTiles
    \/ RemoveTiles
    \/ SetAutoRender
    \/ Render

Spec == Init /\ [][Next]_vars

\* ------------------------------------------- construction configurations
\* The constructor takes viewportWidth and viewportHeight as given, without
\* comparing them with the world: the viewport may be smaller than the world,
\* cover it exactly, or be larger than it.  The world of these behaviours is
\* one cell wider, so that two dirty cells can have a clean cell between
\* them.
ViewWorldWidth == WorldWidth + 1

ViewportSizes ==
    { <<ViewportWidth, ViewportHeight>>, <<ViewWorldWidth, WorldHeight>>,
      <<ViewWorldWidth + 1, WorldHeight + 1>> }

ViewInit ==
    /\ \E size \in ViewportSizes :
          New([worldWidth |-> ViewWorldWidth, worldHeight |-> WorldHeight,
               viewportWidth |-> size[1], viewportHeight |-> size[2]])
    /\ legacy = NoLegacy
    /\ canvas = NoCanvas
    /\ entity = NewEntity("")

\* the viewport and the calls that feed the dirty set
ViewNext ==
    \/ SetViewport
    \/ CreateTile
    \/ SetOverlay
    \/ ClearOverlays
    \/ SetAutoRender
    \/ Render

ViewSpec == ViewInit /\ [][ViewNext]_vars

\* ------------------------------------------------------ the world canvas
\* The pixels of the world canvas are observed: canvas holds, for every cell
\* of the world, the layers last drawn on it.  A new canvas is transparent,
\* which is what clearRect leaves.  The tiles created here may have a
\* transparent background or a fill fraction of 0, and z-index 1 or 2.
PaintInit ==
    /\ New([worldWidth |-> WorldWidth, worldHeight |-> WorldHeight,
            viewportWidth |-> ViewportWidth,
            viewportHeight |-> ViewportHeight])
    /\ legacy = NoLegacy
    /\ canvas = [c \in (0..(WorldWidth - 1)) \X (0..(WorldHeight - 1)) |->
                   <<ClearLayer>>]
    /\ entity = NewEntity("")

PaintZs == {1, 2}
\* background colour and fill fraction: drawn, fraction 0, transparent
PaintFills == {<<"#000000FF", 1>>, <<"#000000FF", 0>>, <<Transparent, 1>>}
\* a move to the next column (from the last column: out of the world), a
\* new z-index, a new glyph
PaintUpdates(id) ==
    { [NoUpdates EXCEPT !.x = {heap[i].x + 1}] : i \in {id} \cap DOMAIN heap }
      \cup { [NoUpdates EXCEPT !.zIndex = {v}] : v \in PaintZs }
      \cup { [NoUpdates EXCEPT !.char = {"."}] }
\* the cell the tiles are created in: the world's last column
PaintCells == {<<WorldWidth - 1, 0>>}

\* a call of a behaviour bounded in calls and tile ids, not in render passes
PaintCommit(st, call) ==
    /\ calls < MaxPaintCalls
    /\ st.tileIdCounter <= MaxIds
    /\ Store(st, call)

PaintTile ==
    \E p \in PaintCells, fill \in PaintFills, z \in PaintZs :
        PaintCommit(createTile(Cur, p[1], p[2], "@", "#FFFFFFFF", fill[1], z,
                               fill[2], "BOTTOM"),
                    Call("createTile", tileIdCounter))

PaintUpdateTile ==
    \E id \in Ids :
      \E u \in PaintUpdates(id) :
        PaintCommit(updateTile(Cur, id, u), Call("updateTile", id))

PaintRemoveTile ==
    \E id \in Ids :
        PaintCommit(removeTile(Cur, id), Call("removeTile", id))

PaintSetOverlay ==
    \E p \in PaintCells, c \in OverlayColors :
        PaintCommit(setOverlay(Cur, p[1], p[2], c), Call("setOverlay", -1))

PaintSetBackground ==
    PaintCommit(setBackground(Cur, ".", "#FFFFFFFF", "#000000FF"),
                Call("setBackground", -1))

PaintClear ==
    PaintCommit(clear(Cur), Call("clear", -1))

PaintSetAutoRender ==
    \E enabled \in BOOLEAN :
        PaintCommit(setAutoRender(Cur, enabled), Call("setAutoRender", -1))

PaintRender ==
    PaintCommit(render(Cur), Call("render", -1))

PaintNext ==
    \/ PaintTile
    \/ PaintUpdateTile
    \/ PaintRemoveTile
    \/ PaintSetOverlay
    \/ PaintSetBackground
    \/ PaintClear
    \/ PaintSetAutoRender
    \/ PaintRender

PaintSpec == PaintInit /\ [][PaintNext]_vars

\* ------------------------------------------------- the 10x10 scenarios
\* world 10x10, viewport 5x5 at (0,0), every other option at its default
ScenarioInit ==
    /\ New([worldWidth |-> 10, worldHeight |-> 10,
            viewportWidth |-> 5, viewportHeight |-> 5])
    /\ legacy = NoLegacy
    /\ canvas = NoCanvas
    /\ entity = NewEntity("")

ScenarioPans == {<<20, 20>>, <<0, 0>>, <<3, 7>>, <<-4, 2>>}

ScenarioCreateTile ==
    Commit(createTile(Cur, 2, 2, "@", "#FFFFFFFF", "#000000FF", 1, 1,
                      "BOTTOM"),
           Call("createTile", tileIdCounter))

ScenarioSetViewport ==
    \E p \in ScenarioPans :
        Commit(setViewport(Cur, p[1], p[2]), Call("setViewport", -1))

ScenarioNext ==
    \/ ScenarioCreateTile
    \/ ScenarioSetViewport
    \/ SetAutoRender
    \/ Render

ScenarioSpec == ScenarioInit /\ [][ScenarioNext]_vars

\* ---------------------------------------------------------- text layout
\* Strings laid out on a world three cells wide and three rows high, from
\* origins inside the world, at its right edge, left of it and above it.
TextWorldWidth == ViewWorldWidth
TextWorldHeight == WorldHeight + 2
\* number of public calls in one text behaviour
MaxTextCalls == 2
\* number of strings laid out in one text behaviour, from its start
MaxTexts == 1
\* tile ids one text behaviour may use: a padded box and a text
MaxTextIds == 15
\* longest text of a segment
MaxText == 3

TextInit ==
    /\ New([worldWidth |-> TextWorldWidth, worldHeight |-> TextWorldHeight,
            viewportWidth |-> TextWorldWidth,
            viewportHeight |-> TextWorldHeight])
    /\ legacy = NoLegacy
    /\ canvas = NoCanvas
    /\ entity = NewEntity("")

TextOrigins == {<<0, 0>>, <<TextWorldWidth - 1, 0>>, <<-1, 0>>, <<0, -1>>}
TextWidths == {1, 2}
TextHeights == {0}
TextZs == {2}
TextChars == {"a", " "}
Texts == UNION { [1..n -> TextChars] : n \in 1..MaxText }
\* what the parser returns: one white segment, or a white segment followed
\* by a red one
Segments ==
    { <<[text |-> t, color |-> "#FFFFFFFF"]>> : t \in Texts }
      \cup { <<[text |-> t, color |-> "#FFFFFFFF"],
               [text |-> u, color |-> "#FF0000FF"]>> :
               t \in [1..1 -> TextChars], u \in [1..1 -> TextChars] }
\* the options: the defaults (with the z-index given), a filled box, a
\* filled box with padding
TextOptions ==
    { [DefaultOptions EXCEPT !.zIndex = z, !.fillBox = f[1],
                             !.padding = f[2]] :
        z \in TextZs, f \in {<<FALSE, 0>>, <<TRUE, 0>>, <<TRUE, 1>>} }

TextCommit(st, call) ==
    /\ calls < MaxTextCalls
    /\ st.tileIdCounter <= MaxTextIds
    /\ Store(st, call)

\* a call that lays out a string
LayoutCommit(st, call) ==
    /\ calls < MaxTexts
    /\ TextCommit(st, call)

CreateString ==
    \E p \in TextOrigins, segments \in Segments, z \in TextZs \cup {1} :
        LayoutCommit(createString(Cur, p[1], p[2], segments, z),
                     [Call("createString", -1) EXCEPT
                        !.args = [NoArgs EXCEPT !.x = p[1], !.y = p[2],
                                                !.segments = segments,
                                                !.zIndex = z]])

CreateWrappedString ==
    \E p \in TextOrigins, width \in TextWidths, height \in TextHeights,
       segments \in Segments, options \in TextOptions :
        LayoutCommit(createWrappedString(Cur, p[1], p[2], width, height,
                                       segments, options),
                   [Call("createWrappedString", -1) EXCEPT
                      !.args = [NoArgs EXCEPT !.x = p[1], !.y = p[2],
                                              !.width = width,
                                              !.height = height,
                                              !.segments = segments,
                                              !.zIndex = options.zIndex,
                                              !.fillBox = options.fillBox,
                                              !.padding = options.padding]])

\* moveTiles on a list of two tiles
MoveTileList ==
    \E a \in Ids, b \in Ids, d \in Deltas :
        TextCommit(moveTiles(Cur, <<a, b>>, d[1], d[2]),
                   [Call("moveTiles", -1) EXCEPT
                      !.args = [NoArgs EXCEPT !.tileIds = <<a, b>>,
                                              !.dx = d[1], !.dy = d[2]]])

TextNext ==
    \/ CreateString
    \/ CreateWrappedString
    \/ MoveTileList

TextSpec == TextInit /\ [][TextNext]_vars

\* ------------------------------------------ the first MatrixDisplay
\* src/src/matrix-display.ts: cells hold Tile objects {symbol, fgColor,
\* bgColor, zIndex, groupId} by value, and tileGroups maps a group id to the
\* list of positions renderString or moveTileGroup placed its tiles at.
\* Every public call ends with an unconditional render().
\* group ids available to generateGroupId
MaxGroups == 2
\* number of public calls in one behaviour of the first MatrixDisplay
MaxLegacyCalls == 3

LegacyWorldWidth == ViewWorldWidth
LegacyWorldHeight == WorldHeight + 1

\* Math.random().toString(36).substring(2, 15): any id, one already in use
\* included
GroupIds == 1..MaxGroups

LegacyCellRec ==
    [overlay |-> Transparent, tiles |-> <<>>,
     background |-> [symbol |-> ".", fgColor |-> "#AAAAAAFF",
                     bgColor |-> "#000000FF"],
     isDirty |-> TRUE]

legacyInitializeCells(width, height) ==
    [y \in 0..(height - 1) |-> [x \in 0..(width - 1) |-> LegacyCellRec]]

LegacyNew(options) ==
    [worldWidth |-> options.worldWidth, worldHeight |-> options.worldHeight,
     cells |-> legacyInitializeCells(options.worldWidth,
                                     options.worldHeight),
     tileGroups |-> <<>>, dirtyRects |-> {},
     metrics |-> [totalRenderCalls |-> 0, dirtyRectCount |-> 0],
     warned |-> FALSE, threw |-> FALSE]

LegacyCur == [legacy EXCEPT !.warned = FALSE, !.threw = FALSE]

LegacyInBounds(lg, x, y) ==
    x >= 0 /\ x < lg.worldWidth /\ y >= 0 /\ y < lg.worldHeight

\* render(): paints the dirty cells, clears the dirty set, counts the call
legacyRender(lg) ==
    IF lg.threw THEN lg
    ELSE IF Cardinality(lg.dirtyRects) = 0
         THEN [lg EXCEPT !.metrics.totalRenderCalls = @ + 1]
    ELSE IF \E k \in lg.dirtyRects : ~CellDefined(lg, k[1], k[2])
         THEN Throw(lg)
    ELSE [lg EXCEPT !.metrics.dirtyRectCount = Cardinality(lg.dirtyRects),
                    !.dirtyRects = {},
                    !.metrics.totalRenderCalls = @ + 1]

\* setTile: cell.tiles.findIndex(t => t.zIndex <= tile.zIndex), push when
\* there is none, splice before it otherwise
setTile(lg, x, y, tile) ==
    IF lg.threw THEN lg
    ELSE IF ~CellDefined(lg, x, y) THEN Throw(lg)
    ELSE LET tiles == lg.cells[y][x].tiles
             hits == { i \in 1..Len(tiles) : tiles[i].zIndex <= tile.zIndex }
             insertIndex == IF hits = {} THEN Len(tiles) + 1
                            ELSE CHOOSE i \in hits : \A j \in hits : i <= j
         IN  [lg EXCEPT
                !.cells[y][x].tiles =
                    SubSeq(tiles, 1, insertIndex - 1) \o <<tile>>
                      \o SubSeq(tiles, insertIndex, Len(tiles)),
                !.cells[y][x].isDirty = TRUE,
                !.dirtyRects = @ \cup {<<x, y>>}]

\* chars.forEach((char, index) => ...), from index on; w holds the display
\* (lg) and positions
RECURSIVE renderStringChars(_, _, _, _, _, _, _, _, _)
renderStringChars(w, groupId, x, y, chars, index, fgColor, bgColor, zIndex) ==
    IF index >= Len(chars) THEN w
    ELSE LET worldX == x + index
             tile == [symbol |-> chars[index + 1], fgColor |-> fgColor,
                      bgColor |-> bgColor, zIndex |-> zIndex,
                      groupId |-> groupId]
             w1 == IF LegacyInBounds(w.lg, worldX, y)
                   THEN [lg |-> setTile(w.lg, worldX, y, tile),
                         positions |-> Append(w.positions, <<worldX, y>>)]
                   ELSE w
         IN  renderStringChars(w1, groupId, x, y, chars, index + 1, fgColor,
                               bgColor, zIndex)

\* Map.set(groupId, group)
SetGroup(lg, groupId, positions) ==
    [lg EXCEPT !.tileGroups =
        [g \in DOMAIN lg.tileGroups \cup {groupId} |->
            IF g = groupId THEN positions ELSE lg.tileGroups[g]]]

\* renderString with the id generateGroupId returned
renderString(lg, groupId, x, y, text, fgColor, bgColor, zIndex) ==
    LET w == renderStringChars([lg |-> lg, positions |-> <<>>], groupId, x,
                               y, text, 0, fgColor, bgColor, zIndex)
    IN  IF w.lg.threw THEN w.lg
        ELSE legacyRender(SetGroup(w.lg, groupId, w.positions))

\* tiles.filter(tile => tile.groupId !== groupId)
RECURSIVE FilterGroup(_, _)
FilterGroup(tiles, groupId) ==
    IF tiles = <<>> THEN <<>>
    ELSE IF Head(tiles).groupId # groupId
         THEN <<Head(tiles)>> \o FilterGroup(Tail(tiles), groupId)
         ELSE FilterGroup(Tail(tiles), groupId)

\* group.positions.forEach(({x, y}) => ...) of removeTileGroup
RECURSIVE clearGroupCells(_, _, _)
clearGroupCells(lg, positions, groupId) ==
    IF positions = <<>> \/ lg.threw THEN lg
    ELSE LET x == Head(positions)[1]
             y == Head(positions)[2]
         IN  IF ~CellDefined(lg, x, y) THEN Throw(lg)
             ELSE clearGroupCells(
                      [lg EXCEPT
                         !.cells[y][x].tiles = FilterGroup(@, groupId),
                         !.cells[y][x].isDirty = TRUE,
                         !.dirtyRects = @ \cup {<<x, y>>}],
                      Tail(positions), groupId)

\* Map.delete(groupId)
DeleteGroup(lg, groupId) ==
    [lg EXCEPT !.tileGroups =
        [g \in DOMAIN lg.tileGroups \ {groupId} |-> lg.tileGroups[g]]]

removeTileGroup(lg, groupId) ==
    IF groupId \notin DOMAIN lg.tileGroups THEN lg
    ELSE LET l1 == clearGroupCells(lg, lg.tileGroups[groupId], groupId)
         IN  IF l1.threw THEN l1
             ELSE legacyRender(DeleteGroup(l1, groupId))

\* the first loop of moveTileGroup: collect a copy of the group's tile of
\* each position and take the group's tiles out of the cell; w holds the
\* display (lg) and tiles
RECURSIVE collectGroupTiles(_, _, _)
collectGroupTiles(w, positions, groupId) ==
    IF positions = <<>> \/ w.lg.threw THEN w
    ELSE LET x == Head(positions)[1]
             y == Head(positions)[2]
         IN  IF ~CellDefined(w.lg, x, y)
             THEN [w EXCEPT !.lg = Throw(w.lg)]
             ELSE LET cellTiles == w.lg.cells[y][x].tiles
                      found == { i \in 1..Len(cellTiles) :
                                   cellTiles[i].groupId = groupId }
                      w1 == IF found = {} THEN w
                            ELSE [lg |-> [w.lg EXCEPT
                                    !.cells[y][x].tiles =
                                        FilterGroup(@, groupId),
                                    !.cells[y][x].isDirty = TRUE,
                                    !.dirtyRects = @ \cup {<<x, y>>}],
                                  tiles |-> Append(w.tiles,
                                    [tile |-> cellTiles[
                                        CHOOSE i \in found :
                                          \A j \in found : i <= j],
                                     originalX |-> x])]
                  IN  collectGroupTiles(w1, Tail(positions), groupId)

\* the second loop of moveTileGroup: place each collected tile at newX plus
\* its offset from group.positions[0].x when that is inside the world; w
\* holds the display (lg) and newPositions
RECURSIVE placeGroupTiles(_, _, _, _, _)
placeGroupTiles(w, tiles, firstX, newX, newY) ==
    IF tiles = <<>> \/ w.lg.threw THEN w
    ELSE LET relativeX == Head(tiles).originalX - firstX
             worldX == newX + relativeX
             w1 == IF LegacyInBounds(w.lg, worldX, newY)
                   THEN [lg |-> setTile(w.lg, worldX, newY, Head(tiles).tile),
                         newPositions |->
                             Append(w.newPositions, <<worldX, newY>>)]
                   ELSE w
         IN  placeGroupTiles(w1, Tail(tiles), firstX, newX, newY)

moveTileGroup(lg, groupId, newX, newY) ==
    IF groupId \notin DOMAIN lg.tileGroups THEN Warn(lg)
    ELSE LET positions == lg.tileGroups[groupId]
             c == collectGroupTiles([lg |-> lg, tiles |-> <<>>], positions,
                                    groupId)
             firstX == IF positions = <<>> THEN 0 ELSE positions[1][1]
             p == placeGroupTiles([lg |-> c.lg, newPositions |-> <<>>],
                                  c.tiles, firstX, newX, newY)
         IN  IF p.lg.threw THEN p.lg
             ELSE legacyRender(SetGroup(p.lg, groupId, p.newPositions))

\* ---- behaviours of the first MatrixDisplay
LegacyInit ==
    /\ New([worldWidth |-> WorldWidth, worldHeight |-> WorldHeight,
            viewportWidth |-> ViewportWidth,
            viewportHeight |-> ViewportHeight])
    /\ legacy = LegacyNew([worldWidth |-> LegacyWorldWidth,
                           worldHeight |-> LegacyWorldHeight])
    /\ canvas = NoCanvas
    /\ entity = NewEntity("")

LegacyStore(lg, call) ==
    /\ calls < MaxLegacyCalls
    /\ calls' = calls + 1
    /\ legacy' = lg
    /\ op' = [call EXCEPT !.warned = lg.warned, !.threw = lg.threw]
    /\ UNCHANGED <<worldWidth, worldHeight, cells, heap, tileMap,
                   tileIdCounter, dirtyRects, viewport, metrics, autoRender,
                   canvas, issued, entity>>

\* a string inside the world, one cut by the right edge, one cut by the left
\* edge, one below the world
LegacyOrigins ==
    {<<0, 0>>, <<LegacyWorldWidth - 1, 0>>, <<-1, 0>>,
     <<0, LegacyWorldHeight>>}
LegacyTexts == {<<>>, <<"a">>, <<"a", "b">>}
LegacyTargets ==
    {<<0, 0>>, <<1, 1>>, <<LegacyWorldWidth - 1, 1>>, <<-1, 0>>,
     <<0, LegacyWorldHeight>>}

RenderString ==
    \E groupId \in GroupIds, p \in LegacyOrigins, text \in LegacyTexts :
        LegacyStore(renderString(LegacyCur, groupId, p[1], p[2], text,
                                 "#FFFFFFFF", "#000000FF", 1),
                    [Call("renderString", groupId) EXCEPT
                       !.args = [NoArgs EXCEPT !.x = p[1], !.y = p[2],
                                               !.text = text,
                                               !.zIndex = 1]])

RemoveTileGroup ==
    \E groupId \in GroupIds :
        LegacyStore(removeTileGroup(LegacyCur, groupId),
                    Call("removeTileGroup", groupId))

MoveTileGroup ==
    \E groupId \in GroupIds, p \in LegacyTargets :
        LegacyStore(moveTileGroup(LegacyCur, groupId, p[1], p[2]),
                    [Call("moveTileGroup", groupId) EXCEPT
                       !.args = [NoArgs EXCEPT !.x = p[1], !.y = p[2]]])

\* setTile(x, y, tile) with a tile that belongs to no group (groupId
\* undefined, written 0), on a cell of the world or one step outside it
LegacyZs == {1, 2}
LegacyCells ==
    {<<0, 0>>, <<1, 0>>, <<LegacyWorldWidth, 0>>, <<0, LegacyWorldHeight>>}

SetTile ==
    \E p \in LegacyCells, symbol \in {"a", "b"}, z \in LegacyZs :
        LegacyStore(setTile(LegacyCur, p[1], p[2],
                            [symbol |-> symbol, fgColor |-> "#FFFFFFFF",
                             bgColor |-> "#000000FF", zIndex |-> z,
                             groupId |-> 0]),
                    [Call("setTile", -1) EXCEPT
                       !.args = [NoArgs EXCEPT !.x = p[1], !.y = p[2],
                                               !.text = <<symbol>>,
                                               !.zIndex = z]])

LegacyNext ==
    \/ SetTile
    \/ RenderString
    \/ RemoveTileGroup
    \/ MoveTileGroup

LegacySpec == LegacyInit /\ [][LegacyNext]_vars

\* ------------------------------------------------------- the tile ids
\* every call that hands out tile ids, and removeTile, on the world of Spec:
\* a text call comes first, single tiles and backgrounds follow, with
\* auto-render on or off
IdNext ==
    \/ SetAutoRender
    \/ CreateTile
    \/ RemoveTile
    \/ SetBackground
    \/ CreateString
    \/ CreateWrappedString

IdSpec == Init /\ [][IdNext]_vars

\* ------------------------------------------------------------- the entity
\* one Entity, constructed with an explicit id or with a generated one;
\* components of two types, with two values of the data, the flag modified
\* absent, true or false
Components ==
    { [type |-> t, x |-> x, y |-> 20, modified |-> m] :
        t \in {"position", "health"}, x \in {10, 11},
        m \in {{}, {TRUE}, {FALSE}} }

EntityInit ==
    /\ New([worldWidth |-> WorldWidth, worldHeight |-> WorldHeight,
            viewportWidth |-> ViewportWidth,
            viewportHeight |-> ViewportHeight])
    /\ legacy = NoLegacy
    /\ canvas = NoCanvas
    /\ \E id \in {"test-entity", "uuid"} : entity = NewEntity(id)

\* the entity's fields after a call: the call's component or type, and the
\* value it returned
EntityStore(en, name, component, ret) ==
    /\ calls < MaxEntityCalls
    /\ calls' = calls + 1
    /\ entity' = en
    /\ op' = [Call(name, -1) EXCEPT !.ret = ret, !.args.component = component]
    /\ UNCHANGED <<worldWidth, worldHeight, cells, heap, tileMap,
                   tileIdCounter, dirtyRects, viewport, metrics, autoRender,
                   legacy, canvas, issued>>

SetComponent ==
    \E c \in Components :
        EntityStore(setComponent(entity, c), "setComponent", c, <<>>)

RemoveComponent ==
    \E type \in { c.type : c \in Components } :
        EntityStore(removeComponent(entity, type).en, "removeComponent",
                    [NoComponent EXCEPT !.type = type],
                    <<removeComponent(entity, type).ret>>)

ClearChanges ==
    EntityStore(clearChanges(entity), "clearChanges", NoComponent, <<>>)

EntityNext ==
    \/ SetComponent
    \/ RemoveComponent
    \/ ClearChanges

EntitySpec == EntityInit /\ [][EntityNext]_vars

\* ------------------------------------------------------- vocabulary of claims
World == { <<x, y>> : x \in 0..(worldWidth - 1), y \in 0..(worldHeight - 1) }

InWorld(x, y) == <<x, y>> \in World

TilesIn(cs, c) == cs[c[2]][c[1]].tiles

TilesAt(c) == TilesIn(cells, c)

\* the stored position of tile object id
PosIn(h, id) == <<h[id].x, h[id].y>>

PosOf(id) == PosIn(heap, id)

\* the cells whose tile sequence holds tile object id
CellsHolding(id) == { c \in World : id \in Range(TilesAt(c)) }

Occurrences(seq, id) == Cardinality({ i \in 1..Len(seq) : seq[i] = id })

\* the tile sequence of every cell with tile object id taken out
Without(cs, id) ==
    [y \in DOMAIN cs |-> [x \in DOMAIN cs[y] |->
        SeqFilter(cs[y][x].tiles, Range(cs[y][x].tiles) \ {id})]]

TileSeqs(cs) == [y \in DOMAIN cs |-> [x \in DOMAIN cs[y] |-> cs[y][x].tiles]]

Overlays(cs) == [y \in DOMAIN cs |-> [x \in DOMAIN cs[y] |-> cs[y][x].overlay]]

\* C1: every tile of the tile index is in exactly one cell's sequence, once,
\* and that cell's coordinates are the tile's stored (x,y).
C1_TileInExactlyOneCell ==
    \A id \in tileMap :
        /\ InWorld(heap[id].x, heap[id].y)
        /\ CellsHolding(id) = {PosOf(id)}
        /\ Occurrences(TilesAt(PosOf(id)), id) = 1

\* C2: every cell's stored tile sequence is non-decreasing in z-index.
C2_CellsSortedByZ ==
    \A c \in World :
        \A i, j \in 1..Len(TilesAt(c)) :
            i < j => heap[TilesAt(c)[i]].zIndex <= heap[TilesAt(c)[j]].zIndex

\* tile id sits at one index of its cell with every other tile of z-index <=
\* its own before it and every tile of strictly greater z-index after it
StablyPlaced(id) ==
    LET seq == TilesAt(PosOf(id))
        z == heap[id].zIndex
    IN  \E k \in 1..Len(seq) :
            /\ seq[k] = id
            /\ \A i \in 1..Len(seq) \ {k} :
                   IF heap[seq[i]].zIndex <= z THEN i < k ELSE i > k

\* C3: when createTile or moveTile has inserted a tile into a cell, the tile
\* stands after every tile of that cell with z-index <= its own and before
\* every tile with strictly greater z-index.
C3_StableInsertion ==
    ( /\ op.name \in {"createTile", "moveTile"}
      /\ ~op.threw /\ ~op.warned
      /\ op.id \in tileMap
      /\ InWorld(heap[op.id].x, heap[op.id].y) )
    => StablyPlaced(op.id)

\* C4: moveTile of a known tile to an in-bounds destination returns, takes the
\* tile out of its old cell, stores the new position, puts the tile into the
\* destination cell, leaves (auto-render off) both coordinates dirty and
\* changes the cell and position of no other tile.
C4_MoveTileMoves ==
    [][ op'.name = "moveTile" =>
        \A p \in World :
          ( /\ op'.id \in tileMap
            /\ Commit(moveTile(Cur, op'.id, p[1], p[2]),
                      Call("moveTile", op'.id)) )
          => /\ ~op'.threw
             /\ InWorld(heap[op'.id].x, heap[op'.id].y)
             /\ PosIn(heap', op'.id) = p
             /\ op'.id \in Range(TilesIn(cells', p))
             /\ PosOf(op'.id) # p =>
                    op'.id \notin Range(TilesIn(cells', PosOf(op'.id)))
             /\ ~autoRender => {PosOf(op'.id), p} \subseteq dirtyRects'
             /\ Without(cells', op'.id) = Without(cells, op'.id)
             /\ \A j \in DOMAIN heap \ {op'.id} :
                    j \in DOMAIN heap' /\ heap'[j] = heap[j]
      ]_vars

\* what a rejected call leaves alone: the tile index, every cell's tiles and
\* overlay, every tile's attributes, the viewport, the dirty set and the
\* metrics; and it does not throw
RejectedIsNoOp ==
    /\ ~op'.threw
    /\ tileMap' = tileMap
    /\ cells' = cells
    /\ heap' = heap
    /\ viewport' = viewport
    /\ dirtyRects' = dirtyRects
    /\ metrics' = metrics
    /\ tileIdCounter' = tileIdCounter

\* C5: moveTile with an unknown id or an out-of-bounds destination, updateTile
\* and removeTile with an unknown id, setOverlay and emptyCell with an
\* out-of-bounds coordinate return without throwing and change nothing: a
\* step either is a no-op or is no such call.
C5_SoftFailuresAreNoOps ==
    [][ \/ RejectedIsNoOp
        \/ /\ op'.name = "moveTile" =>
                ~\E p \in Positions :
                    /\ op'.id \notin tileMap \/ ~InWorld(p[1], p[2])
                    /\ Commit(moveTile(Cur, op'.id, p[1], p[2]),
                              Call("moveTile", op'.id))
           /\ (op'.name = "updateTile" /\ op'.id \notin tileMap) =>
                ~\E u \in Updates :
                    Commit(updateTile(Cur, op'.id, u),
                           Call("updateTile", op'.id))
           /\ (op'.name = "removeTile" /\ op'.id \notin tileMap) =>
                ~Commit(removeTile(Cur, op'.id), Call("removeTile", op'.id))
           /\ op'.name = "setOverlay" =>
                ~\E p \in Positions \ World, c \in OverlayColors :
                    Commit(setOverlay(Cur, p[1], p[2], c),
                           Call("setOverlay", -1))
           /\ op'.name = "emptyCell" =>
                ~\E p \in Positions \ World :
                    Commit(emptyCell(Cur, p[1], p[2]), Call("emptyCell", -1))
      ]_vars

\* a known tile standing in a cell has just been refused a move (its id is
\* known, so the destination was out of bounds) while cells are dirty
C5_Witness ==
    /\ op.name = "moveTile" /\ op.warned /\ ~op.threw
    /\ op.id \in tileMap
    /\ CellsHolding(op.id) # {}
    /\ dirtyRects # {}

\* C6: moveTile(id, tile.x, tile.y) leaves every cell's tile sequence as it
\* was, order included, and changes the dirty set only by adding the tile's
\* own coordinate (stated for a store in which every tile stands in exactly
\* its own cell and every cell is sorted).
C6_MoveToSamePositionIdempotent ==
    [][ (op'.name = "moveTile" /\ C1_TileInExactlyOneCell
                               /\ C2_CellsSortedByZ) =>
        ( ( /\ op'.id \in tileMap
            /\ Commit(moveTile(Cur, op'.id, heap[op'.id].x, heap[op'.id].y),
                      Call("moveTile", op'.id)) )
          => /\ ~op'.threw
             /\ TileSeqs(cells') = TileSeqs(cells)
             /\ ~autoRender =>
                  /\ dirtyRects \subseteq dirtyRects'
                  /\ dirtyRects' \subseteq dirtyRects \cup {PosOf(op'.id)} )
      ]_vars

\* C7: createTile outside the world extent does not throw, adds no tile to
\* the tile index, changes no cell and leaves the dirty set unchanged.
C7_CreateOutOfBoundsRejected ==
    [][ op'.name = "createTile" =>
        \A p \in Positions \ World, char \in Chars, color \in Colors,
           bg \in BgColors, z \in ZS, pct \in Percents, dir \in Dirs :
          Commit(createTile(Cur, p[1], p[2], char, color, bg, z, pct, dir),
                 Call("createTile", tileIdCounter))
          => /\ ~op'.threw
             /\ tileMap' = tileMap
             /\ cells' = cells
             /\ dirtyRects' = dirtyRects
      ]_vars

\* C8: getTile right after an in-bounds createTile returns the id, the
\* position and the attributes passed in; getTile after removeTile of a tile
\* standing in the world returns undefined, and removeTile returned.
C8_CreateGetRemoveRoundTrip ==
    [][ /\ op'.name = "createTile" =>
            \A p \in World, char \in Chars, color \in Colors,
               bg \in BgColors, z \in ZS, pct \in Percents, dir \in Dirs :
              Commit(createTile(Cur, p[1], p[2], char, color, bg, z, pct,
                                dir),
                     Call("createTile", tileIdCounter))
              => /\ ~op'.threw
                 /\ getTile(Cur', op'.id) =
                      {[id |-> op'.id, x |-> p[1], y |-> p[2],
                        char |-> char, color |-> color,
                        backgroundColor |-> bg, zIndex |-> z,
                        bgPercent |-> pct, fillDirection |-> dir]}
        /\ op'.name = "removeTile" =>
              ( ( /\ op'.id \in tileMap
                  /\ Commit(removeTile(Cur, op'.id),
                            Call("removeTile", op'.id)) )
                => /\ op'.threw => ~InWorld(heap[op'.id].x, heap[op'.id].y)
                   /\ ~op'.threw => getTile(Cur', op'.id) = {} )
      ]_vars

\* a tile that was handed out and was known has just been removed while
\* another tile stays in the index
C8_Witness ==
    /\ op.name = "removeTile" /\ ~op.warned /\ ~op.threw
    /\ op.id < tileIdCounter
    /\ getTile(Cur, op.id) = {}
    /\ tileMap # {}

\* C9: updateTile whose position fields name a different in-bounds cell
\* leaves the tile absent from its old cell, present in the new cell only,
\* and (auto-render off) both coordinates dirty.
C9_UpdatePositionMoves ==
    [][ op'.name = "updateTile" =>
        \A u \in Updates :
          LET new == <<Assign(heap[op'.id], u).x, Assign(heap[op'.id], u).y>>
          IN  ( /\ op'.id \in tileMap
                /\ u.x # {} \/ u.y # {}
                /\ InWorld(heap[op'.id].x, heap[op'.id].y)
                /\ new \in World
                /\ new # PosOf(op'.id)
                /\ Commit(updateTile(Cur, op'.id, u),
                          Call("updateTile", op'.id)) )
              => /\ ~op'.threw
                 /\ op'.id \notin Range(TilesIn(cells', PosOf(op'.id)))
                 /\ \A c \in World :
                        op'.id \in Range(TilesIn(cells', c)) <=> c = new
                 /\ ~autoRender => {PosOf(op'.id), new} \subseteq dirtyRects'
      ]_vars

\* C10: updateTile of a known tile without position fields changes only the
\* named attributes of that tile, adds exactly the tile's coordinate to the
\* dirty set (auto-render off) and leaves cells, other tiles and the viewport
\* unchanged.
C10_UpdateAttributesFrame ==
    [][ op'.name = "updateTile" =>
        \A u \in Updates :
          ( /\ op'.id \in tileMap
            /\ u.x = {} /\ u.y = {}
            /\ Commit(updateTile(Cur, op'.id, u),
                      Call("updateTile", op'.id)) )
          => /\ ~op'.threw
             /\ heap' = [heap EXCEPT ![op'.id] = Assign(@, u)]
             /\ tileMap' = tileMap
             /\ TileSeqs(cells') = TileSeqs(cells)
             /\ viewport' = viewport
             /\ ~autoRender => dirtyRects' = dirtyRects \cup {PosOf(op'.id)}
      ]_vars

\* C11: removeTile of a known tile leaves the id in no cell's tile sequence
\* and out of the tile index, and (auto-render off) the tile's coordinate in
\* the dirty set.
C11_RemoveTileRemoves ==
    [][ (op'.name = "removeTile" /\ op'.id \in tileMap) =>
          /\ ~op'.threw
          /\ \A c \in World : op'.id \notin Range(TilesIn(cells', c))
          /\ op'.id \notin tileMap'
          /\ ~autoRender => PosOf(op'.id) \in dirtyRects'
      ]_vars

\* C12: emptyCell of an in-bounds cell leaves that cell's tile sequence
\* empty and none of its former tiles in the tile index, and leaves the tile
\* sequence of every other cell as it was.
C12_EmptyCellEmpties ==
    [][ op'.name = "emptyCell" =>
        \A p \in World :
          Commit(emptyCell(Cur, p[1], p[2]), Call("emptyCell", -1))
          => /\ ~op'.threw
             /\ TilesIn(cells', p) = <<>>
             /\ Range(TilesAt(p)) \cap tileMap' = {}
             /\ \A c \in World \ {p} : TilesIn(cells', c) = TilesAt(c)
      ]_vars

\* C13: setOverlay of an in-bounds cell changes the overlay of that cell
\* only and (auto-render off) adds exactly its coordinate to the dirty set;
\* clearOverlays makes every overlay transparent and (auto-render off) adds
\* every world coordinate to the dirty set; neither changes a cell's tiles,
\* a tile or the tile index.
C13_OverlayFrame ==
    [][ /\ op'.name = "setOverlay" =>
            \A p \in World, c \in OverlayColors :
              Commit(setOverlay(Cur, p[1], p[2], c), Call("setOverlay", -1))
              => /\ Overlays(cells') =
                      [Overlays(cells) EXCEPT ![p[2]][p[1]] = c]
                 /\ ~autoRender => dirtyRects' = dirtyRects \cup {p}
        /\ op'.name = "clearOverlays" =>
              /\ \A c \in World : cells'[c[2]][c[1]].overlay = Transparent
              /\ ~autoRender => dirtyRects' = dirtyRects \cup World
        /\ op'.name \in {"setOverlay", "clearOverlays"} =>
              /\ TileSeqs(cells') = TileSeqs(cells)
              /\ heap' = heap
              /\ tileMap' = tileMap
      ]_vars

\* an overlay has just been set on one cell, with auto-render off, while the
\* other cell holds a tile and keeps its own overlay
C13_Witness ==
    /\ op.name = "setOverlay" /\ ~op.warned /\ ~op.threw
    /\ ~autoRender
    /\ \E c, d \in World :
          /\ c # d
          /\ cells[c[2]][c[1]].overlay # Transparent
          /\ cells[d[2]][d[1]].overlay = Transparent
          /\ TilesAt(d) # <<>>
          /\ c \in dirtyRects

\* C14: every setViewport call leaves 0 <= viewport.x <= worldWidth -
\* viewportWidth and 0 <= viewport.y <= worldHeight - viewportHeight.
C14_ViewportClamped ==
    [][ op'.name = "setViewport" =>
          /\ 0 <= viewport'.x
          /\ viewport'.x <= worldWidth - viewport'.width
          /\ 0 <= viewport'.y
          /\ viewport'.y <= worldHeight - viewport'.height
      ]_vars

\* C15: with auto-render off, after every setViewport call the dirty set
\* holds every coordinate of the resulting viewport rectangle, and the call
\* added no coordinate outside that rectangle.
C15_PanDirtiesViewport ==
    [][ (op'.name = "setViewport" /\ ~autoRender) =>
          /\ ViewportRect(viewport') \subseteq dirtyRects'
          /\ dirtyRects' \ dirtyRects \subseteq ViewportRect(viewport')
          /\ dirtyRects \subseteq dirtyRects'
      ]_vars

\* a pan has just left the viewport at the origin with auto-render off: its
\* rectangle is dirty, and so is a coordinate an earlier pan dirtied
C15_Witness ==
    /\ op.name = "setViewport" /\ ~op.threw
    /\ ~autoRender
    /\ viewport.x = 0 /\ viewport.y = 0
    /\ ViewportRect(viewport) \subseteq dirtyRects
    /\ dirtyRects \ ViewportRect(viewport) # {}

\* C16: every setViewport call makes one render pass before it returns: the
\* render-call count is one higher and the dirty set is empty.
C16_SetViewportRenders ==
    [][ op'.name = "setViewport" =>
          /\ metrics'.totalRenderCalls = metrics.totalRenderCalls + 1
          /\ dirtyRects' = {}
      ]_vars

\* C17, as stated: when createTile returns on the freshly constructed engine
\* (default settings) the dirty set holds the tile's coordinate; a render
\* pass over a non-empty dirty set that returns leaves the dirty set empty.
C17_FreshCreateDirties ==
    [][ /\ (op'.name = "createTile" /\ calls = 0) =>
              PosIn(heap', op'.id) \in dirtyRects'
        /\ (op'.name = "render" /\ dirtyRects # {} /\ ~op'.threw) =>
              dirtyRects' = {}
      ]_vars

\* C17, amended: with auto-render off, when an in-bounds createTile returns
\* the dirty set holds the tile's coordinate; a render pass over a non-empty
\* dirty set that returns leaves the dirty set empty.
C17_CreateDirtiesRenderClears ==
    [][ /\ (op'.name = "createTile" /\ ~autoRender /\ ~op'.threw
             /\ InWorld(heap'[op'.id].x, heap'[op'.id].y)) =>
              PosIn(heap', op'.id) \in dirtyRects'
        /\ (op'.name = "render" /\ dirtyRects # {} /\ ~op'.threw) =>
              dirtyRects' = {}
      ]_vars

\* render() has just returned after painting the cell of a tile that was
\* created with auto-render off
C17_Witness ==
    /\ op.name = "render" /\ ~op.threw
    /\ ~autoRender
    /\ dirtyRects = {}
    /\ \E id \in tileMap : BagIn(PosOf(id), op.painted)

Mutating ==
    {"createTile", "moveTile", "moveTiles", "updateTile", "updateTiles",
     "removeTile", "removeTiles", "emptyCell", "setOverlay", "clearOverlays",
     "setBackground", "setTiles", "clear", "setViewport"}

\* C20: with auto-render on, a mutating call that starts with nothing dirty
\* returns with nothing dirty, so the dirty set is empty between public
\* calls.
C20_AutoRenderLeavesNothingDirty ==
    [][ (autoRender /\ dirtyRects = {} /\ op'.name \in Mutating) =>
          dirtyRects' = {}
      ]_vars

\* C21: with auto-render off a mutating call renders nothing: it leaves
\* totalRenderCalls as it was, paints no cell, makes no copy to the display
\* and only adds to the dirty set; the explicit render() that follows paints
\* every coordinate accumulated in the dirty set.
C21_NoRenderWhileAutoRenderOff ==
    [][ /\ (~autoRender /\ op'.name \in Mutating) =>
              /\ metrics'.totalRenderCalls = metrics.totalRenderCalls
              /\ op'.painted = EmptyBag
              /\ op'.blits = 0
              /\ dirtyRects \subseteq dirtyRects'
        /\ (~autoRender /\ op'.name = "render" /\ ~op'.threw) =>
              /\ BagToSet(op'.painted) = dirtyRects
              /\ dirtyRects' = {}
      ]_vars

\* with auto-render off, an explicit render() has just painted the two
\* cells that earlier calls had dirtied, and it is the only render so far
C21_Witness ==
    /\ op.name = "render" /\ ~op.threw
    /\ ~autoRender
    /\ BagCardinality(op.painted) >= 2
    /\ metrics.totalRenderCalls = 1

\* C22: moveTile, updateTile, removeTile, emptyCell, setOverlay, setViewport
\* and render return normally in every reachable state, for every argument.
C22_NoPublicCallThrows ==
    op.name \in {"moveTile", "updateTile", "removeTile", "emptyCell",
                 "setOverlay", "setViewport", "render"}
    => ~op.threw

\* ----------------------------------------------------- text layout claims
\* the characters of the parsed text, in order
RECURSIVE ParsedText(_)
ParsedText(segments) ==
    IF segments = <<>> THEN <<>>
    ELSE Head(segments).text \o ParsedText(Tail(segments))

\* the colour of the segment each character of the parsed text belongs to
RECURSIVE ParsedColors(_)
ParsedColors(segments) ==
    IF segments = <<>> THEN <<>>
    ELSE [i \in 1..Len(Head(segments).text) |-> Head(segments).color]
           \o ParsedColors(Tail(segments))

\* C23: createWrappedString returns normally for every origin, width and
\* text, also when a word is first created outside the world and then
\* wrapped to a position inside it, and the list it returns holds the id of
\* every tile it created.
C23_WrappedStringCompletes ==
    [][ op'.name = "createWrappedString" =>
          /\ ~op'.threw
          /\ Range(op'.ret) = tileIdCounter..(tileIdCounter' - 1)
      ]_vars

\* C24: createString returns one id per character of the parsed text, in
\* order, and the i-th tile (from 0) is stored at (x+i, y) with the z-index
\* given, the background #000000FF, the colour of its segment and its
\* character.
C24_CreateStringOneTilePerChar ==
    [][ op'.name = "createString" =>
          LET a == op'.args
              text == ParsedText(a.segments)
              colors == ParsedColors(a.segments)
          IN  /\ ~op'.threw
              /\ Len(op'.ret) = Len(text)
              /\ \A i \in 1..Len(text) :
                   /\ op'.ret[i] = tileIdCounter + (i - 1)
                   /\ op'.ret[i] \in tileMap'
                   /\ heap'[op'.ret[i]] =
                        [id |-> op'.ret[i], x |-> a.x + (i - 1), y |-> a.y,
                         char |-> text[i], color |-> colors[i],
                         backgroundColor |-> "#000000FF",
                         zIndex |-> a.zIndex, bgPercent |-> 1,
                         fillDirection |-> "BOTTOM"]
      ]_vars

\* a two-segment string laid out at z-index 2 from the last column: its
\* second tile is red and stored one column past the right edge
C24_Witness ==
    /\ op.name = "createString"
    /\ Len(op.args.segments) = 2
    /\ op.args.zIndex = 2
    /\ Len(op.ret) = 2
    /\ heap[op.ret[2]].color = "#FF0000FF"
    /\ heap[op.ret[2]].x = worldWidth
    /\ heap[op.ret[1]].x = worldWidth - 1

\* the word tokens of the parsed text, in layout order
RECURSIVE WordTokens(_)
WordTokens(segments) ==
    IF segments = <<>> THEN <<>>
    ELSE SplitWords(Head(segments).text) \o WordTokens(Tail(segments))

\* the index, in the parsed text, of the character before word k
RECURSIVE WordOffset(_, _)
WordOffset(words, k) ==
    IF k = 1 THEN 0 ELSE WordOffset(words, k - 1) + Len(words[k - 1])

\* the ids of the text tiles a createWrappedString call returned: the list
\* without the background box it starts with
TextTileIds(call) ==
    LET n == Len(ParsedText(call.args.segments))
    IN  SubSeq(call.ret, Len(call.ret) - n + 1, Len(call.ret))

\* the ids of the tiles of word k
WordTileIds(call, k) ==
    LET words == WordTokens(call.args.segments)
    IN  SubSeq(TextTileIds(call), WordOffset(words, k) + 1,
               WordOffset(words, k) + Len(words[k]))

\* the call returned, none of its moves was rejected and every text tile
\* is stored inside the world
LaidOutInBounds(call, h) ==
    /\ call.name = "createWrappedString"
    /\ ~call.threw /\ ~call.warned
    /\ \A id \in Range(TextTileIds(call)) :
         /\ h[id].x >= 0 /\ h[id].x < worldWidth
         /\ h[id].y >= 0 /\ h[id].y < worldHeight

\* C25: after a createWrappedString laid out in bounds, a text of two or
\* more word tokens whose total length exceeds width has tiles on at least
\* two rows, and every tile of a word token no longer than width has a final
\* x of at most x + width.
C25_GreedyWrap ==
    LaidOutInBounds(op, heap) =>
        LET words == WordTokens(op.args.segments)
        IN  /\ (Len(words) >= 2 /\
                Len(ParsedText(op.args.segments)) > op.args.width) =>
                  Cardinality({ heap[id].y : id \in Range(TextTileIds(op)) })
                    >= 2
            /\ \A k \in 1..Len(words) :
                 Len(words[k]) <= op.args.width =>
                   \A id \in Range(WordTileIds(op, k)) :
                       heap[id].x <= op.args.x + op.args.width

\* "a a" laid out in bounds with width 2: the second "a" is on the next row
C25_Witness ==
    /\ LaidOutInBounds(op, heap)
    /\ op.args.width = 2
    /\ Len(WordTokens(op.args.segments)) = 3
    /\ { heap[id].y : id \in Range(TextTileIds(op)) } = {op.args.y, op.args.y + 1}
    /\ heap[TextTileIds(op)[3]].x = op.args.x

\* the tiles of word k are stored on one row, in consecutive columns, in
\* character order
WordUnbroken(call, h, k) ==
    LET ids == WordTileIds(call, k)
    IN  \A i \in 1..Len(ids) :
            /\ h[ids[i]].y = h[ids[1]].y
            /\ h[ids[i]].x = h[ids[1]].x + (i - 1)

\* C26: when createWrappedString returns, every word token is unbroken: the
\* tiles of a token are on one row, in consecutive columns, in character
\* order, whatever the width.
C26_WordsNeverBroken ==
    (op.name = "createWrappedString" /\ ~op.threw) =>
        (\A k \in 1..Len(WordTokens(op.args.segments)) :
               WordUnbroken(op, heap, k))

\* the box with both bounds of each range included
ClosedBox(a) ==
    { <<px, py>> : px \in (a.x - a.padding)..(a.x + a.width + a.padding),
                   py \in (a.y - a.padding)..(a.y + a.height + a.padding + 1) }

\* the box without its last column and its last row: width + 2*padding
\* columns and height + 2*padding + 1 rows
HalfOpenBox(a) ==
    { <<px, py>> : px \in (a.x - a.padding)..(a.x + a.width + a.padding - 1),
                   py \in (a.y - a.padding)..(a.y + a.height + a.padding) }

\* of the tiles first..(next - 1) a call created, the first ones are
\* background tiles at z-index zIndex - 1, exactly one stored at each
\* coordinate of the box, and every tile created after them has z-index
\* zIndex
BoxThenText(a, box, first, next, h) ==
    LET n == Cardinality(box)
    IN  /\ first + n <= next
        /\ \A c \in box :
             Cardinality({ id \in first..(first + n - 1) :
                             <<h[id].x, h[id].y>> = c }) = 1
        /\ \A id \in first..(first + n - 1) : h[id].zIndex = a.zIndex - 1
        /\ \A id \in (first + n)..(next - 1) : h[id].zIndex = a.zIndex

\* C27 as stated: with fillBox, createWrappedString creates, before any text
\* tile, exactly one background tile at z-index zIndex-1 for every (px,py)
\* with x-padding <= px <= x+width+padding and y-padding <= py <=
\* y+height+padding+1, none elsewhere, and every text tile has z-index
\* zIndex.
C27_FillBoxClosedRanges ==
    [][ (op'.name = "createWrappedString" /\ op'.args.fillBox) =>
          BoxThenText(op'.args, ClosedBox(op'.args), tileIdCounter,
                      tileIdCounter', heap')
      ]_vars

\* C27 amended: the box ends one column and one row earlier: one background
\* tile for every (px,py) with x-padding <= px < x+width+padding and
\* y-padding <= py < y+height+padding+1.
C27_FillBoxHalfOpenRanges ==
    [][ (op'.name = "createWrappedString" /\ op'.args.fillBox) =>
          BoxThenText(op'.args, HalfOpenBox(op'.args), tileIdCounter,
                      tileIdCounter', heap')
      ]_vars

\* a padded box around a two-character text of width 2: twelve background
\* tiles, the first at (x-1, y-1) and the last at (x+2, y+1), then the text
C27_Witness ==
    /\ op.name = "createWrappedString" /\ ~op.threw
    /\ op.args.fillBox /\ op.args.padding = 1 /\ op.args.width = 2
    /\ Len(op.ret) = 12 + 2
    /\ <<heap[op.ret[1]].x, heap[op.ret[1]].y>> =
         <<op.args.x - 1, op.args.y - 1>>
    /\ <<heap[op.ret[12]].x, heap[op.ret[12]].y>> =
         <<op.args.x + 2, op.args.y + 1>>
    /\ heap[op.ret[12]].zIndex = op.args.zIndex - 1
    /\ heap[op.ret[13]].zIndex = op.args.zIndex

\* the offset of tile a from tile b in heap h
Offset(h, a, b) == <<h[a].x - h[b].x, h[a].y - h[b].y>>

\* C28: moveTiles(ids, dx, dy) keeps the relative offset of every two listed
\* tiles, for every displacement, also one that takes some of the tiles out
\* of the world.
C28_MoveTilesKeepsOffsets ==
    [][ op'.name = "moveTiles" =>
          \A a, b \in Range(op'.args.tileIds) \cap tileMap :
              Offset(heap', a, b) = Offset(heap, a, b)
      ]_vars

\* ------------------------------------------------------ tile group claims
\* the tiles tagged groupId, as (x, y, index in the cell) triples
GroupTiles(lg, groupId) ==
    { t \in (0..(lg.worldWidth - 1)) \X (0..(lg.worldHeight - 1)) \X (1..4) :
        /\ t[3] <= Len(lg.cells[t[2]][t[1]].tiles)
        /\ lg.cells[t[2]][t[1]].tiles[t[3]].groupId = groupId }

\* the cell (x, y) exists and holds a tile tagged groupId
HoldsGroupTile(lg, x, y, groupId) ==
    /\ CellDefined(lg, x, y)
    /\ \E i \in 1..Len(lg.cells[y][x].tiles) :
           lg.cells[y][x].tiles[i].groupId = groupId

\* C29: moveTileGroup(groupId, newX, newY) on a registered group keeps the
\* number of tiles tagged groupId, and the member of each position ends in
\* row newY at newX plus its x offset from the group's first position.
C29_MoveTileGroupKeepsMembers ==
    [][ (op'.name = "moveTileGroup" /\ op'.id \in DOMAIN legacy.tileGroups) =>
          LET positions == legacy.tileGroups[op'.id]
          IN  /\ Cardinality(GroupTiles(legacy', op'.id)) =
                   Cardinality(GroupTiles(legacy, op'.id))
              /\ \A i \in 1..Len(positions) :
                   HoldsGroupTile(legacy',
                                  op'.args.x + (positions[i][1] - positions[1][1]),
                                  op'.args.y, op'.id)
      ]_vars

\* C30: the group registry never holds a group without member positions,
\* and after removeTileGroup(g) no cell holds a tile tagged g and g is not
\* registered.
C30_NoEmptyGroupRegistered ==
    /\ \A g \in DOMAIN legacy.tileGroups : legacy.tileGroups[g] # <<>>
    /\ op.name = "removeTileGroup" =>
         /\ op.id \notin DOMAIN legacy.tileGroups
         /\ GroupTiles(legacy, op.id) = {}

\* ------------------------------------------------------ store invariants
\* C36: every coordinate of the dirty set names a cell of the world grid, for
\* every viewport size the constructor accepts and every setViewport
\* argument.
C36_DirtyInsideWorld ==
    \A k \in dirtyRects :
        /\ 0 <= k[1] /\ k[1] < worldWidth
        /\ 0 <= k[2] /\ k[2] < worldHeight

\* C37: every tile found in a cell's tile sequence is registered in the tile
\* index under its id.
C37_CellTilesAreIndexed ==
    \A c \in World :
        \A i \in 1..Len(TilesAt(c)) :
            /\ TilesAt(c)[i] \in tileMap
            /\ heap[TilesAt(c)[i]].id = TilesAt(c)[i]

\* C38: updateTile of a tile placed in its in-bounds cell, with position
\* fields that name an out-of-bounds destination, leaves the stored position
\* as it was and the tile in that cell's sequence.
C38_UpdateOutOfBoundsRejected ==
    [][ op'.name = "updateTile" =>
        \A u \in Updates :
          LET new == <<Assign(heap[op'.id], u).x, Assign(heap[op'.id], u).y>>
          IN  ( /\ op'.id \in tileMap
                /\ u.x # {} \/ u.y # {}
                /\ InWorld(heap[op'.id].x, heap[op'.id].y)
                /\ op'.id \in Range(TilesAt(PosOf(op'.id)))
                /\ new \notin World
                /\ Commit(updateTile(Cur, op'.id, u),
                          Call("updateTile", op'.id)) )
              => /\ PosIn(heap', op'.id) = PosOf(op'.id)
                 /\ op'.id \in Range(TilesIn(cells', PosOf(op'.id)))
      ]_vars

\* C34: after a setTile(x, y, tile) of the first MatrixDisplay the cell's
\* tile sequence is in ascending z-index order and the new tile sits after
\* every tile of the cell whose z-index is lower or equal (equal z-index in
\* insertion order), the other tiles keeping their order.
C34_LegacySetTileSortsAscending ==
    [][ (op'.name = "setTile" /\ ~op'.threw) =>
          LET old == legacy.cells[op'.args.y][op'.args.x].tiles
              new == legacy'.cells[op'.args.y][op'.args.x].tiles
              k == Cardinality({ i \in 1..Len(old) :
                                   old[i].zIndex <= op'.args.zIndex })
          IN  /\ \A i, j \in 1..Len(new) :
                    i < j => new[i].zIndex <= new[j].zIndex
              /\ Len(new) = Len(old) + 1
              /\ new[k + 1].symbol = op'.args.text[1]
              /\ new[k + 1].zIndex = op'.args.zIndex
              /\ \A i \in 1..Len(old) :
                    new[IF i <= k THEN i ELSE i + 1] = old[i]
      ]_vars

\* ------------------------------------------------------------ the canvas
\* the layers of a paint that were drawn for tiles
TileLayerIndexes(layers) ==
    { i \in 1..Len(layers) : layers[i].layer \in {"background", "glyph"} }

\* what a layer looks like: its kind, style, glyph and fill
Look(l) ==
    [layer |-> l.layer, style |-> l.style, char |-> l.char,
     bgPercent |-> l.bgPercent, fillDirection |-> l.fillDirection]

Appearance(layers) == [i \in 1..Len(layers) |-> Look(layers[i])]

C35_NoStaleCells ==
    (op.name = "render" /\ ~op.threw) =>
        \A c \in DOMAIN canvas :
            Appearance(canvas[c]) = Appearance(renderCell(Cur, c[1], c[2]))

\* C39: the ids generateTileId hands out are pairwise distinct, over any
\* sequence of createTile, createString, createWrappedString, setBackground
\* and removeTile calls, so an id is not handed out again after its tile
\* was removed; every registered tile and every tile of a cell carries an id
\* that was handed out.
C39_TileIdsUnique ==
    /\ \A i, j \in 1..Len(issued) : i # j => issued[i] # issued[j]
    /\ tileMap \subseteq Range(issued)
    /\ \A c \in World : Range(TilesAt(c)) \subseteq Range(issued)

\* createTile handed out an id after an earlier tile was removed
C39_Witness ==
    /\ op.name = "createTile"
    /\ ~op.threw
    /\ Len(issued) >= 2
    /\ op.id = issued[Len(issued)]
    /\ \E i \in 1..(Len(issued) - 1) :
          /\ issued[i] \notin tileMap
          /\ \A c \in World : issued[i] \notin Range(TilesAt(c))

\* ------------------------------------------------------------- the entity
\* the component or type the last entity call was given
Given == op.args.component

\* C31: after setComponent(c), getComponent(c.type) returns a component
\* equal to c, and the entity holds exactly one component of that type, so
\* a later setComponent of the same type replaces the earlier component.
C31_GetReturnsWhatWasSet ==
    (op.name = "setComponent") =>
        /\ getComponent(entity, Given.type) = {Given}
        /\ Cardinality({ i \in 1..Len(getComponents(entity)) :
                           getComponents(entity)[i].type = Given.type }) = 1

C40_ChangeTracking ==
    /\ (op.name = "setComponent") =>
          hasComponentChanged(entity, Given.type) /\ hasChanges(entity)
    /\ (op.name = "clearChanges") =>
          /\ ~hasChanges(entity)
          /\ \A i \in 1..Len(getComponents(entity)) :
                getComponents(entity)[i].modified = {FALSE}
    /\ \A type \in Range(getChangedComponents(entity)) :
          hasComponent(entity, type)

====
